---- MODULE Spec2Model ----
(***************************************************************************)
(* Model of the well-log application's core: the LAS parser                *)
(* (services/las_parser.py), the depth-indexed store and its queries       *)
(* (services/data_service.py, routers/wells.py) and the interpretation     *)
(* service (services/ai_service.py).                                       *)
(*                                                                         *)
(* Numbers.  Floats are modelled by integers counted in "raw units".  A    *)
(* value rounded to 4 decimals (Python round(x, 4)) is a multiple of       *)
(* RoundUnit raw units; raw file cells may be any integer.  An optional    *)
(* value (Python None, NaN for a raw cell) is a sequence: <<>> is "no      *)
(* value", <<v>> is the value v.                                           *)
(***************************************************************************)
EXTENDS Integers, Sequences, FiniteSets, TLC

VARIABLES
    wells,      \* committed rows of table "wells": [id, well_name, null_value]
    curvesT,    \* committed rows of table "curves": [well_id, idx, mnemonic]
    dataT,      \* committed rows of table "well_data": [well_id, idx, depth, values]
    nextWellId, \* the wells.id sequence
    sess,       \* per upload request: position in store_parsed_las and its open transaction
    ingests,    \* number of upload requests started
    blobs,      \* keys of the objects put in the S3 bucket
    lastOp,     \* the last read operation and its arguments
    qres,       \* result of the last get_well_data
    qstats,     \* result of the last get_well_statistics
    keys,       \* settings.GROQ_API_KEY and settings.OPENAI_API_KEY
    client,     \* ai_service._provider; "NONE" while ai_service._client is unset
    call,       \* the last call of the interpretation service and its arguments
    out         \* the outcome of that call

tableVars == <<wells, curvesT, dataT>>
readVars == <<lastOp, qres, qstats>>
aiVars == <<keys, client, call, out>>
vars == <<wells, curvesT, dataT, nextWellId, sess, ingests, blobs, lastOp, qres, qstats,
          keys, client, call, out>>

(***************************************************************************)
(* Bounds of the model.                                                    *)
(***************************************************************************)
RoundUnit == 3      \* raw units per 4th decimal digit
MaxIngests == 3     \* upload requests per behaviour
BatchSize == 2      \* rows per bulk_save_objects batch (BATCH_SIZE, scaled down)
MaxFileRows == 2    \* data rows of a file of the round-trip specification

NoValue == <<>>
Some(v) == <<v>>
IsSome(o) == o /= <<>>
Val(o) == o[1]

Max2(a, b) == IF a >= b THEN a ELSE b
Min2(a, b) == IF a <= b THEN a ELSE b

RECURSIVE SeqSum(_)
SeqSum(s) == IF s = <<>> THEN 0 ELSE Head(s) + SeqSum(Tail(s))

RECURSIVE SeqMax(_)
SeqMax(s) == IF Len(s) = 1 THEN s[1] ELSE Max2(Head(s), SeqMax(Tail(s)))

RECURSIVE SeqMin(_)
SeqMin(s) == IF Len(s) = 1 THEN s[1] ELSE Min2(Head(s), SeqMin(Tail(s)))

Range(s) == {s[i] : i \in DOMAIN s}

\* Python round(p / q, 4) for q > 0, in raw units (halves go up).
RoundDiv(p, q) == ((2 * p + q * RoundUnit) \div (2 * q * RoundUnit)) * RoundUnit

\* Python round(float(x), 4).
Round4(x) == RoundDiv(x, 1)

(***************************************************************************)
(* The LAS parser.                                                         *)
(*                                                                         *)
(* A raw file is what lasio hands to parse_las_file: the header items and  *)
(* the data frame.  curves is las.curves (the first one is the index       *)
(* column); a row is [depth |-> cell, cells |-> [mnemonic |-> cell]] and a *)
(* cell is NaN or a number.                                                *)
(***************************************************************************)
NaN == [nan |-> TRUE, v |-> 0]
Num(r) == [nan |-> FALSE, v |-> r]

DefaultNull == -9999
UnknownWell == "Unknown Well"

\* _get_header(las, "WELL", "Unknown Well")
GetHeader(item, default) == IF IsSome(item) THEN Val(item) ELSE default

\* _get_header_float(las, "NULL", -9999.0)
GetHeaderFloat(item, default) == IF IsSome(item) THEN Val(item) ELSE default

\* df.replace({math.nan: None, null_val: None}) on one cell (every column,
\* the index column included).
ReplaceNaNOnly(cell, null_val) == IF cell.nan THEN NoValue ELSE Some(cell.v)
ReplaceNull(cell, null_val) ==
    IF cell.nan \/ cell.v = null_val THEN NoValue ELSE Some(cell.v)

\* values[mn] = round(float(val), 4) if val is not None else None
CellValue(cell, null_val) ==
    LET val == ReplaceNull(cell, null_val)
    IN IF IsSome(val) THEN Some(Round4(Val(val))) ELSE NoValue

\* The non-index curves, in declared order.
RECURSIVE SkipDepthCurve(_, _)
SkipDepthCurve(cs, depth_mnemonic) ==
    IF cs = <<>> THEN <<>>
    ELSE IF Head(cs) = depth_mnemonic THEN SkipDepthCurve(Tail(cs), depth_mnemonic)
    ELSE <<Head(cs)>> \o SkipDepthCurve(Tail(cs), depth_mnemonic)

ParseCurves(las) ==
    LET depth_mnemonic == IF las.curves /= <<>> THEN las.curves[1] ELSE "DEPT"
    IN SkipDepthCurve(las.curves, depth_mnemonic)

\* The loop over df.to_dict('records'): rows without a depth are skipped.
RECURSIVE ParseRows(_, _, _)
ParseRows(rows, mnemonics, null_val) ==
    IF rows = <<>> THEN <<>>
    ELSE LET row == Head(rows)
             depth == ReplaceNull(row.depth, null_val)
             rest == ParseRows(Tail(rows), mnemonics, null_val)
         IN IF ~IsSome(depth) THEN rest
            ELSE <<[depth |-> Round4(Val(depth)),
                    values |-> [mn \in Range(mnemonics) |->
                                   CellValue(row.cells[mn], null_val)]]>> \o rest

ParseLasFile(las) ==
    LET null_val == GetHeaderFloat(las.null_value, DefaultNull)
        curves == ParseCurves(las)
    IN [well_info |-> [well_name |-> GetHeader(las.well_name, UnknownWell),
                       null_value |-> null_val],
        curves |-> curves,
        data_rows |-> ParseRows(las.rows, curves, null_val)]

(***************************************************************************)
(* The store: the three tables and one database transaction per request.   *)
(* A request's writes are pending in its own transaction (db.add,          *)
(* db.delete, db.flush, db.bulk_save_objects) until its db.commit(); other *)
(* requests read the committed tables only.                                *)
(***************************************************************************)
Sessions == {1, 2}

InProgress == {"lookup", "delete", "insert_well", "insert_curves", "insert_rows", "commit"}

IdleSession ==
    [pc |-> "idle", las |-> NoValue, parsed |-> NoValue, existing |-> NoValue, deleted |-> NoValue,
     well_id |-> NoValue, curves_added |-> FALSE, rows_saved |-> 0, before |-> NoValue,
     blobs_before |-> NoValue]

Store == [wells |-> wells, curves |-> curvesT, data |-> dataT]

\* The rows the open transaction of a request would insert, as table rows.
NewWellRows(x) ==
    IF IsSome(x.well_id)
    THEN {[id |-> Val(x.well_id),
           well_name |-> Val(x.parsed).well_info.well_name,
           null_value |-> Val(x.parsed).well_info.null_value]}
    ELSE {}

NewCurveRows(x) ==
    IF x.curves_added
    THEN {[well_id |-> Val(x.well_id), idx |-> i, mnemonic |-> Val(x.parsed).curves[i]]
            : i \in DOMAIN Val(x.parsed).curves}
    ELSE {}

NewDataRows(x) ==
    {[well_id |-> Val(x.well_id), idx |-> i,
      depth |-> Val(x.parsed).data_rows[i].depth,
      values |-> Val(x.parsed).data_rows[i].values] : i \in 1..x.rows_saved}

\* What db.delete(existing_well) removes: the well and, by cascade, its
\* curves and data rows.
CascadeNone(rows, deleted) == rows
Cascade(rows, deleted) ==
    IF IsSome(deleted) THEN {r \in rows : r.well_id /= Val(deleted)} ELSE rows

\* The uploaded bytes, by what lasio.read makes of their text: a LASFile,
\* or nothing when it raises.
Unreadable == [read |-> NoValue]
Readable(las) == [read |-> Some(las)]

\* parse_las_file on the uploaded bytes: the parsed file, or nothing when
\* it raises ValueError("Invalid LAS file: ...").
ParseLasBytesLenient(content) ==
    IF IsSome(content.read) THEN Some(ParseLasFile(Val(content.read)))
    ELSE Some([well_info |-> [well_name |-> UnknownWell, null_value |-> DefaultNull],
               curves |-> <<>>, data_rows |-> <<>>])
ParseLasBytes(content) ==
    IF IsSome(content.read) THEN Some(ParseLasFile(Val(content.read))) ELSE NoValue

\* s3_service.upload_bytes(content, s3_key): the object is put unless there
\* is no client or put_object raises ClientError.
UploadBytes(stored, s3_key, s3_success) ==
    IF s3_success THEN stored \cup {s3_key} ELSE stored

\* upload_las_file up to the call of store_parsed_las: the request's file
\* is parsed and, unless that raises (HTTP 400), the bytes are put in S3
\* under a fresh key and the transaction is fresh.  s3_outcomes: whether
\* the put can succeed and can fail in the deployment.
Begin(s, content, s3_outcomes) ==
    /\ sess[s].pc = "idle"
    /\ lastOp.op = "none"
    /\ LET parsed == ParseLasBytes(content)
       IN IF ~IsSome(parsed)
          THEN /\ sess' = [sess EXCEPT ![s] = [IdleSession EXCEPT
                               !.pc = "rejected",
                               !.before = Some(Store),
                               !.blobs_before = Some(blobs)]]
               /\ UNCHANGED <<ingests, blobs>>
          ELSE /\ ingests < MaxIngests
               /\ ingests' = ingests + 1
               /\ \E s3_success \in s3_outcomes :
                     blobs' = UploadBytes(blobs, ingests', s3_success)
               /\ sess' = [sess EXCEPT ![s] = [IdleSession EXCEPT
                               !.pc = "lookup",
                               !.las = content.read,
                               !.parsed = parsed,
                               !.before = Some(Store),
                               !.blobs_before = Some(blobs)]]
    /\ UNCHANGED <<tableVars, nextWellId, readVars, aiVars>>

\* existing_well = db.query(Well).filter(Well.well_name == well_name).first()
\* (no ORDER BY: any committed well of that name may be the first).
LookupAnyWell(s) ==
    /\ sess[s].pc = "lookup"
    /\ \/ /\ wells /= {}
          /\ \E w \in wells :
                sess' = [sess EXCEPT ![s].existing = Some(w.id), ![s].pc = "delete"]
       \/ /\ wells = {}
          /\ sess' = [sess EXCEPT ![s].pc = "insert_well"]
    /\ UNCHANGED <<blobs, tableVars, nextWellId, ingests, readVars, aiVars>>

Lookup(s) ==
    /\ sess[s].pc = "lookup"
    /\ LET name == Val(sess[s].parsed).well_info.well_name
           same == {w \in wells : w.well_name = name}
       IN \/ /\ same /= {}
             /\ \E w \in same :
                   sess' = [sess EXCEPT ![s].existing = Some(w.id), ![s].pc = "delete"]
          \/ /\ same = {}
             /\ sess' = [sess EXCEPT ![s].pc = "insert_well"]
    /\ UNCHANGED <<blobs, tableVars, nextWellId, ingests, readVars, aiVars>>

DeleteExistingAutocommit(s) ==
    /\ sess[s].pc = "delete"
    /\ wells' = {w \in wells : Some(w.id) /= sess[s].existing}
    /\ curvesT' = Cascade(curvesT, sess[s].existing)
    /\ dataT' = Cascade(dataT, sess[s].existing)
    /\ sess' = [sess EXCEPT ![s].pc = "insert_well"]
    /\ UNCHANGED <<blobs, nextWellId, ingests, readVars, aiVars>>

\* db.delete(existing_well); db.flush().  The DELETE waits while another
\* open transaction has deleted the same row; it removes nothing when the
\* row is already gone.
DeleteExisting(s) ==
    /\ sess[s].pc = "delete"
    /\ \A t \in Sessions \ {s} : sess[t].deleted /= sess[s].existing
    /\ sess' = [sess EXCEPT ![s].deleted = sess[s].existing, ![s].pc = "insert_well"]
    /\ UNCHANGED <<blobs, tableVars, nextWellId, ingests, readVars, aiVars>>

\* db.add(well); db.flush(): the id comes from the sequence, which is not
\* rolled back.
InsertWell(s) ==
    /\ sess[s].pc = "insert_well"
    /\ sess' = [sess EXCEPT ![s].well_id = Some(nextWellId), ![s].pc = "insert_curves"]
    /\ nextWellId' = nextWellId + 1
    /\ UNCHANGED <<blobs, tableVars, ingests, readVars, aiVars>>

\* for c in parsed["curves"]: db.add(Curve(...))
InsertCurves(s) ==
    /\ sess[s].pc = "insert_curves"
    /\ sess' = [sess EXCEPT ![s].curves_added = TRUE, ![s].pc = "insert_rows"]
    /\ UNCHANGED <<blobs, tableVars, nextWellId, ingests, readVars, aiVars>>

\* db.bulk_save_objects(data_objects[i : i + BATCH_SIZE]), one batch.
InsertBatch(s) ==
    /\ sess[s].pc = "insert_rows"
    /\ LET n == Len(Val(sess[s].parsed).data_rows)
           saved == Min2(n, sess[s].rows_saved + BatchSize)
       IN IF sess[s].rows_saved < n
          THEN sess' = [sess EXCEPT ![s].rows_saved = saved,
                                    ![s].pc = IF saved < n THEN "insert_rows" ELSE "commit"]
          ELSE sess' = [sess EXCEPT ![s].pc = "commit"]
    /\ UNCHANGED <<blobs, tableVars, nextWellId, ingests, readVars, aiVars>>

\* db.commit(): the transaction's deletes and inserts become visible at once.
Commit(s) ==
    /\ sess[s].pc = "commit"
    /\ wells' = {w \in wells : Some(w.id) /= sess[s].deleted} \cup NewWellRows(sess[s])
    /\ curvesT' = Cascade(curvesT, sess[s].deleted) \cup NewCurveRows(sess[s])
    /\ dataT' = Cascade(dataT, sess[s].deleted) \cup NewDataRows(sess[s])
    /\ sess' = [sess EXCEPT ![s].pc = "done", ![s].deleted = NoValue]
    /\ UNCHANGED <<blobs, nextWellId, ingests, readVars, aiVars>>

\* A database error in store_parsed_las (any statement, or the commit):
\* the exception reaches upload_las_file, nothing is committed and the
\* transaction's pending work is dropped.
Fail(s) ==
    /\ sess[s].pc \in InProgress
    /\ sess' = [sess EXCEPT ![s].pc = "failed", ![s].deleted = NoValue]
    /\ UNCHANGED <<blobs, tableVars, nextWellId, ingests, readVars, aiVars>>

\* The response is sent; the request is over.
Finish(s) ==
    /\ sess[s].pc \in {"done", "failed", "rejected"}
    /\ sess' = [sess EXCEPT ![s] = IdleSession]
    /\ UNCHANGED <<blobs, tableVars, nextWellId, ingests, readVars, aiVars>>

(***************************************************************************)
(* Reads: get_well_data and get_well_statistics.                           *)
(***************************************************************************)
\* The depth filters of get_well_data: each applies only when its bound is
\* not None; both are inclusive.
InWindowExclusive(depth, depth_min, depth_max) ==
    /\ IsSome(depth_min) => depth > Val(depth_min)
    /\ IsSome(depth_max) => depth < Val(depth_max)
InWindow(depth, depth_min, depth_max) ==
    /\ IsSome(depth_min) => depth >= Val(depth_min)
    /\ IsSome(depth_max) => depth <= Val(depth_max)

\* db.query(WellData).filter(WellData.well_id == well_id) and the depth filters.
FilterRowsAnyWell(well_id, depth_min, depth_max) ==
    {r \in dataT : InWindow(r.depth, depth_min, depth_max)}
FilterRows(well_id, depth_min, depth_max) ==
    {r \in dataT : r.well_id = well_id /\ InWindow(r.depth, depth_min, depth_max)}

\* query.order_by(WellData.depth).all(): every order of the rows that is
\* ascending in depth (the order of rows of equal depth is the database's).
OrderByDepth(rows) ==
    LET n == Cardinality(rows)
    IN {f \in [1..n -> rows] :
          /\ \A i, j \in 1..n : i /= j => f[i] /= f[j]
          /\ \A i, j \in 1..n : i < j => f[i].depth <= f[j].depth}

\* row.values.get(curve)
DictGet(values, key) == IF key \in DOMAIN values THEN values[key] ELSE NoValue

\* point = {"depth": row.depth}; for curve in curves: point[curve] = row.values.get(curve)
\* (every value of a result row is optional here: the depth d is <<d>>).
PointOmitMissing(row, curves) ==
    [k \in {"depth"} \cup {c \in Range(curves) : IsSome(DictGet(row.values, c))} |->
        IF k \in Range(curves) THEN DictGet(row.values, k) ELSE Some(row.depth)]
Point(row, curves) ==
    [k \in {"depth"} \cup Range(curves) |->
        IF k \in Range(curves) THEN DictGet(row.values, k) ELSE Some(row.depth)]

\* The possible results of get_well_data.
GetWellData(well_id, curves, depth_min, depth_max) ==
    {[i \in DOMAIN f |-> Point(f[i], curves)] :
        f \in OrderByDepth(FilterRows(well_id, depth_min, depth_max))}

\* values = [p[curve] for p in data if p.get(curve) is not None]
RECURSIVE CurveValues(_, _)
CurveValues(data, curve) ==
    IF data = <<>> THEN <<>>
    ELSE LET p == Head(data)
         IN (IF IsSome(DictGet(p, curve)) THEN <<Val(p[curve])>> ELSE <<>>)
            \o CurveValues(Tail(data), curve)

\* One entry of the result of get_well_statistics.
CurveStatsCountValues(data, curve) ==
    LET values == CurveValues(data, curve)
    IN IF values /= <<>>
       THEN [min |-> Some(Round4(SeqMin(values))),
             max |-> Some(Round4(SeqMax(values))),
             mean |-> Some(RoundDiv(SeqSum(values), Len(values))),
             count |-> Len(values), non_null_count |-> Len(values)]
       ELSE [min |-> NoValue, max |-> NoValue, mean |-> NoValue,
             count |-> 0, non_null_count |-> 0]
CurveStats(data, curve) ==
    LET values == CurveValues(data, curve)
    IN IF values /= <<>>
       THEN [min |-> Some(Round4(SeqMin(values))),
             max |-> Some(Round4(SeqMax(values))),
             mean |-> Some(RoundDiv(SeqSum(values), Len(values))),
             count |-> Len(data), non_null_count |-> Len(values)]
       ELSE [min |-> NoValue, max |-> NoValue, mean |-> NoValue,
             count |-> Len(data), non_null_count |-> 0]

\* get_well_statistics, given the rows get_well_data returned.
GetWellStatistics(data, curves) == [c \in Range(curves) |-> CurveStats(data, c)]

NoRead == [op |-> "none"]

\* A call of get_well_data(db, well_id, curves, depth_min, depth_max); it
\* reads the committed tables.
ReadData(ids, curveLists, bounds) ==
    /\ lastOp.op = "none"
    /\ \A s \in Sessions : sess[s].pc \in {"idle", "done"}
    /\ \E well_id \in ids, curves \in curveLists, depth_min \in bounds, depth_max \in bounds :
          /\ lastOp' = [op |-> "data", well_id |-> well_id, curves |-> curves,
                        depth_min |-> depth_min, depth_max |-> depth_max]
          /\ qres' \in GetWellData(well_id, curves, depth_min, depth_max)
    /\ qstats' = <<>>
    /\ UNCHANGED <<blobs, tableVars, nextWellId, sess, ingests, aiVars>>

\* A call of get_well_statistics(db, well_id, curves, depth_min, depth_max).
ReadStatistics(ids, curveLists, bounds) ==
    /\ lastOp.op = "none"
    /\ \A s \in Sessions : sess[s].pc \in {"idle", "done"}
    /\ \E well_id \in ids, curves \in curveLists, depth_min \in bounds, depth_max \in bounds :
          /\ lastOp' = [op |-> "stats", well_id |-> well_id, curves |-> curves,
                        depth_min |-> depth_min, depth_max |-> depth_max]
          /\ \E data \in GetWellData(well_id, curves, depth_min, depth_max) :
                /\ qres' = data
                /\ qstats' = GetWellStatistics(data, curves)
    /\ UNCHANGED <<blobs, tableVars, nextWellId, sess, ingests, aiVars>>

\* The caller drops the result of its read.
ClearRead ==
    /\ lastOp.op /= "none"
    /\ lastOp' = NoRead
    /\ qres' = <<>>
    /\ qstats' = <<>>
    /\ UNCHANGED <<blobs, tableVars, nextWellId, sess, ingests, aiVars>>

\* delete_well(well_id, db): 404 when there is no such well; otherwise
\* db.delete(well) and db.commit(), the curves and samples of the well
\* going with it (cascade="all, delete-orphan").
DeleteWellKeepRows(ids) ==
    /\ lastOp.op = "none"
    /\ \A s \in Sessions : sess[s].pc = "idle"
    /\ \E well_id \in ids :
          /\ lastOp' = [op |-> "delete", well_id |-> well_id,
                        found |-> \E w \in wells : w.id = well_id]
          /\ wells' = {w \in wells : w.id /= well_id}
    /\ UNCHANGED <<blobs, curvesT, dataT, qres, qstats, nextWellId, sess, ingests, aiVars>>
DeleteWell(ids) ==
    /\ lastOp.op = "none"
    /\ \A s \in Sessions : sess[s].pc = "idle"
    /\ \E well_id \in ids :
          /\ lastOp' = [op |-> "delete", well_id |-> well_id,
                        found |-> \E w \in wells : w.id = well_id]
          /\ wells' = {w \in wells : w.id /= well_id}
          /\ curvesT' = Cascade(curvesT, Some(well_id))
          /\ dataT' = Cascade(dataT, Some(well_id))
    /\ UNCHANGED <<blobs, qres, qstats, nextWellId, sess, ingests, aiVars>>

(***************************************************************************)
(* The backend client (get_ai_client).                                     *)
(***************************************************************************)
\* The kinds of configured key: none, a template placeholder, a key of
\* fewer than 20 characters, a usable key.
\* The configured keys: unset, a placeholder, too short, usable.
KeyConfigs == [groq : {"", "short", "valid"}, openai : {"your_key_here", "valid"}]
\* _client, _provider, _model_name before any client is made.
NoClient == [client |-> NoValue, provider |-> "NONE", model_name |-> ""]
NoCall == [op |-> "none"]

(***************************************************************************)
(* Uploaded files and read requests of the specifications.                 *)
(***************************************************************************)
Row1(d, m, c) == [depth |-> d, cells |-> (m :> c)]
Row2(d, m1, c1, m2, c2) == [depth |-> d, cells |-> (m1 :> c1) @@ (m2 :> c2)]

\* Data frames: rows out of depth order with a NaN and a null cell; a
\* single row; two curves and two rows of equal depth.
StoreTables ==
    {[curves |-> <<"DEPT", "HC1">>,
      rows |-> <<Row1(Num(6), "HC1", Num(4)), Row1(Num(0), "HC1", NaN),
                 Row1(Num(3), "HC1", Num(DefaultNull))>>],
     [curves |-> <<"DEPT", "HC2">>,
      rows |-> <<Row1(Num(3), "HC2", Num(6))>>],
     [curves |-> <<"DEPT", "HC1", "HC2">>,
      rows |-> <<Row2(Num(3), "HC1", Num(3), "HC2", Num(9)),
                 Row2(Num(3), "HC1", Num(6), "HC2", NaN)>>]}

StoreFiles ==
    {[well_name |-> Some(n), null_value |-> NoValue, curves |-> t.curves, rows |-> t.rows] :
        n \in {"A", "B"}, t \in StoreTables}

WellIds == 1..(nextWellId - 1)
StoreCurveLists == {<<"HC1">>, <<"HC2", "HC1">>, <<"GR">>}
StoreBounds == {NoValue, Some(3), Some(4)}

Init ==
    /\ wells = {}
    /\ curvesT = {}
    /\ dataT = {}
    /\ nextWellId = 1
    /\ sess = [s \in Sessions |-> IdleSession]
    /\ ingests = 0
    /\ blobs = {}
    /\ lastOp = NoRead
    /\ qres = <<>>
    /\ qstats = <<>>
    /\ keys = [groq |-> "", openai |-> "your_key_here"]
    /\ client = NoClient
    /\ call = NoCall
    /\ out = NoCall

\* Upload requests one at a time, and reads between them.
Upload(s, files, s3_outcomes) ==
    \/ \E las \in files : Begin(s, Readable(las), s3_outcomes)
    \/ Begin(s, Unreadable, s3_outcomes)
    \/ Lookup(s)
    \/ DeleteExisting(s)
    \/ InsertWell(s)
    \/ InsertCurves(s)
    \/ InsertBatch(s)
    \/ Commit(s)
    \/ Fail(s)
    \/ Finish(s)

Next ==
    \/ Upload(1, StoreFiles, BOOLEAN)
    \/ ReadData(WellIds, StoreCurveLists, StoreBounds)
    \/ ReadStatistics(WellIds, StoreCurveLists, StoreBounds)
    \/ DeleteWell(WellIds)
    \/ ClearRead

Spec == Init /\ [][Next]_vars

\* Two upload requests at a time, without S3 credentials.
NextConc == \E s \in Sessions : Upload(s, StoreFiles, {FALSE})

SpecConc == Init /\ [][NextConc]_vars

(***************************************************************************)
(* Properties of the store.                                                *)
(***************************************************************************)
WellsNamed(name) == {w \in wells : w.well_name = name}
MnemonicsOf(id) == {c.mnemonic : c \in {k \in curvesT : k.well_id = id}}
CurveRowsOf(id) == {c \in curvesT : c.well_id = id}
DataRowsOf(id) == {r \in dataT : r.well_id = id}

\* The well of a finished upload is stored whole: its row, its curves and
\* its samples, exactly those of the parsed file.
StoredWhole(x) ==
    LET p == Val(x.parsed)
        id == Val(x.well_id)
    IN /\ \E w \in wells : w.id = id /\ w.well_name = p.well_info.well_name
       /\ {<<c.idx, c.mnemonic>> : c \in CurveRowsOf(id)}
             = {<<i, p.curves[i]>> : i \in DOMAIN p.curves}
       /\ {<<r.idx, r.depth, r.values>> : r \in DataRowsOf(id)}
             = {<<i, p.data_rows[i].depth, p.data_rows[i].values>> : i \in DOMAIN p.data_rows}

\* Nothing of a well id is left in the tables, or comes back from a query.
Gone(id) ==
    /\ \A w \in wells : w.id /= id
    /\ CurveRowsOf(id) = {}
    /\ DataRowsOf(id) = {}
    /\ \A cl \in StoreCurveLists : GetWellData(id, cl, NoValue, NoValue) = {<<>>}

\* C1: after an upload whose well_name is that of a stored well, the store
\* holds exactly one well of that name, with exactly the curves and samples
\* of the new file; nothing of the earlier well is queryable under the old
\* id, and the new id holds nothing but the new file. With uploads one
\* after the other no name is ever stored twice.
C1_ReingestReplaces ==
    /\ \A s \in Sessions :
          (sess[s].pc = "done" /\ IsSome(sess[s].existing)) =>
             LET x == sess[s]
                 name == Val(x.parsed).well_info.well_name
             IN /\ {w.id : w \in WellsNamed(name)} = {Val(x.well_id)}
                /\ StoredWhole(x)
                /\ MnemonicsOf(Val(x.well_id)) = Range(Val(x.parsed).curves)
                /\ Val(x.existing) /= Val(x.well_id)
                /\ Gone(Val(x.existing))
    /\ \A w1, w2 \in wells : w1.well_name = w2.well_name => w1 = w2

\* C1 witness: a re-ingest has finished and the replaced well had a curve
\* and samples that the new file does not have.
C1_Witness ==
    \E s \in Sessions :
       /\ sess[s].pc = "done"
       /\ IsSome(sess[s].existing)
       /\ \E c \in Val(sess[s].before).curves :
             /\ c.well_id = Val(sess[s].existing)
             /\ c.mnemonic \notin Range(Val(sess[s].parsed).curves)
       /\ \E r \in Val(sess[s].before).data : r.well_id = Val(sess[s].existing)

\* C2: while store_parsed_las runs, and after it has failed at any step,
\* the visible store is the store as it was before the call; once it has
\* succeeded the whole new well is visible, the replaced well is gone and
\* the other wells are untouched.
C2_AtomicReplace ==
    \A s \in Sessions :
       /\ sess[s].pc \in InProgress \cup {"failed"} => Store = Val(sess[s].before)
       /\ sess[s].pc = "done" =>
             /\ StoredWhole(sess[s])
             /\ IsSome(sess[s].existing) => Gone(Val(sess[s].existing))
             /\ {w \in wells : w.id /= Val(sess[s].well_id)}
                   = {w \in Val(sess[s].before).wells : Some(w.id) /= sess[s].existing}

\* C2 witness: the upload failed after it had deleted the existing well of
\* the same name and had saved a batch of the new samples.
C2_Witness ==
    \E s \in Sessions :
       /\ sess[s].pc = "failed"
       /\ IsSome(sess[s].existing)
       /\ sess[s].rows_saved > 0
       /\ \E w \in wells : w.id = Val(sess[s].existing)

\* C3: two uploads of the same well_name that ran concurrently leave
\* exactly one well of that name, holding the file of one of them.
C3_ConcurrentUploadsSerialize ==
    (/\ \A s \in Sessions : sess[s].pc = "done"
     /\ Val(sess[1].parsed).well_info.well_name = Val(sess[2].parsed).well_info.well_name)
    => LET name == Val(sess[1].parsed).well_info.well_name
       IN /\ Cardinality(WellsNamed(name)) = 1
          /\ \E s \in Sessions :
                /\ WellsNamed(name) = {w \in wells : w.id = Val(sess[s].well_id)}
                /\ StoredWhole(sess[s])

\* The rows of a well inside a depth window, and what a row shows of the
\* requested curves.
WindowRows(id, lo, hi) ==
    {r \in DataRowsOf(id) :
        /\ lo = NoValue \/ Val(lo) <= r.depth
        /\ hi = NoValue \/ r.depth <= Val(hi)}

Shown(r, curves, id) ==
    [k \in {"depth"} \cup Range(curves) |->
        IF k = "depth" THEN Some(r.depth)
        ELSE IF k \in MnemonicsOf(id) THEN r.values[k] ELSE NoValue]

\* C4: get_well_data returns exactly the samples of the well whose depth is
\* inside the inclusive window (an omitted bound does not restrict), in
\* ascending depth; every row carries every requested mnemonic, and "no
\* value" for a mnemonic the well does not have.
C4_QuerySamples ==
    lastOp.op = "data" =>
       LET W == WindowRows(lastOp.well_id, lastOp.depth_min, lastOp.depth_max)
           want == {Shown(r, lastOp.curves, lastOp.well_id) : r \in W}
       IN /\ Len(qres) = Cardinality(W)
          /\ \A p \in want :
                Cardinality({i \in DOMAIN qres : qres[i] = p})
                   = Cardinality({r \in W : Shown(r, lastOp.curves, lastOp.well_id) = p})
          /\ \A i, j \in DOMAIN qres : i < j => Val(qres[i].depth) <= Val(qres[j].depth)
          /\ \A i \in DOMAIN qres : \A c \in Range(lastOp.curves) :
                /\ c \in DOMAIN qres[i]
                /\ c \notin MnemonicsOf(lastOp.well_id) => qres[i][c] = NoValue

\* C4 witness: a query with both bounds, on a store of two wells, that
\* returns some row and leaves another row of the same well out, asking
\* for a curve the well does not have.
C4_Witness ==
    /\ lastOp.op = "data"
    /\ IsSome(lastOp.depth_min) /\ IsSome(lastOp.depth_max)
    /\ Cardinality(wells) >= 2
    /\ Len(qres) >= 1
    /\ Len(qres) < Cardinality(DataRowsOf(lastOp.well_id))
    /\ \E c \in Range(lastOp.curves) : c \notin MnemonicsOf(lastOp.well_id)

RECURSIVE SumOver(_, _)
SumOver(rows, c) ==
    IF rows = {} THEN 0
    ELSE LET r == CHOOSE x \in rows : TRUE
         IN Val(r.values[c]) + SumOver(rows \ {r}, c)

\* C7: the statistics hold one entry per listed curve; count is the number
\* of samples in the window, non_null_count the number of them with a value
\* for the curve, min/max/mean are over the present values (rounded), and
\* they are undefined when non_null_count is 0.
C7_Statistics ==
    lastOp.op = "stats" =>
       LET W == WindowRows(lastOp.well_id, lastOp.depth_min, lastOp.depth_max)
       IN /\ DOMAIN qstats = Range(lastOp.curves)
          /\ \A c \in Range(lastOp.curves) :
                LET has == {r \in W : c \in DOMAIN r.values /\ r.values[c] /= NoValue}
                    st == qstats[c]
                IN /\ st.count = Cardinality(W)
                   /\ st.non_null_count = Cardinality(has)
                   /\ has = {} => st.min = NoValue /\ st.max = NoValue /\ st.mean = NoValue
                   /\ has /= {} =>
                         /\ \E r \in has : st.min = r.values[c]
                         /\ \E r \in has : st.max = r.values[c]
                         /\ \A r \in has : Val(st.min) <= Val(r.values[c])
                                           /\ Val(r.values[c]) <= Val(st.max)
                         /\ st.mean = Some(RoundDiv(SumOver(has, c), Cardinality(has)))

\* C7 witness: statistics over a window in which one listed curve has
\* values in some but not all samples and another listed curve has none.
C7_Witness ==
    /\ lastOp.op = "stats"
    /\ \E c \in Range(lastOp.curves) :
          qstats[c].non_null_count > 0 /\ qstats[c].non_null_count < qstats[c].count
    /\ \E c \in Range(lastOp.curves) :
          qstats[c].non_null_count = 0 /\ qstats[c].count > 0

(***************************************************************************)
(* Round trip: one file is parsed, stored and queried.  The files have an  *)
(* index column and two curves; depth cells and cells of the first curve   *)
(* include NaN, the default null value and a number that rounds to it.     *)
(***************************************************************************)
RTDepthCells == {NaN, Num(DefaultNull), Num(1), Num(4)}
RTCells1 == {NaN, Num(DefaultNull), Num(DefaultNull + 1)}
RTCells2 == {NaN, Num(6)}
RTRows == {Row2(d, "HC1", c1, "HC2", c2) : d \in RTDepthCells, c1 \in RTCells1, c2 \in RTCells2}

RTFiles ==
    {[well_name |-> Some("A"), null_value |-> nv, curves |-> <<"DEPT", "HC1", "HC2">>,
      rows |-> rows] :
        nv \in {NoValue, Some(DefaultNull + 1)},
        rows \in UNION {[1..n -> RTRows] : n \in 0..MaxFileRows}}

RTCurveLists == {<<"HC1", "HC2">>, <<"HC2">>}
RTBounds == {Some(0), Some(1), Some(3), Some(4)}

NextRT ==
    \/ ingests = 0 /\ \E las \in RTFiles : Begin(1, Readable(las), {TRUE})
    \/ Lookup(1)
    \/ InsertWell(1)
    \/ InsertCurves(1)
    \/ InsertBatch(1)
    \/ Commit(1)
    \/ ReadData(WellIds, RTCurveLists, RTBounds)

SpecRT == Init /\ [][NextRT]_vars

\* The uploaded file of the round trip, once stored.
RTDone == sess[1].pc = "done"
RTLas == Val(sess[1].las)
RTParsed == Val(sess[1].parsed)
RTNull == RTParsed.well_info.null_value
RTStored(i) == CHOOSE r \in DataRowsOf(Val(sess[1].well_id)) : r.idx = i

\* The file's depths are numbers d1 < d2 < ... < dk, k >= 1.
IncreasingDepths(las) ==
    /\ las.rows /= <<>>
    /\ \A i \in DOMAIN las.rows : ~las.rows[i].depth.nan
    /\ \A i, j \in DOMAIN las.rows : i < j => las.rows[i].depth.v < las.rows[j].depth.v

RoundTripHolds(lo, hi) ==
    (/\ lastOp.op = "data"
     /\ lastOp.well_id = Val(sess[1].well_id)
     /\ lastOp.curves = RTParsed.curves
     /\ lastOp.depth_min = Some(lo)
     /\ lastOp.depth_max = Some(hi))
    => /\ Len(qres) = Len(RTLas.rows)
       /\ \A i \in DOMAIN qres :
             /\ qres[i].depth = Some(Round4(RTLas.rows[i].depth.v))
             /\ \A c \in Range(RTParsed.curves) : c \in DOMAIN qres[i]

\* C5 as claimed: a file with depths d1 < ... < dk, stored and queried over
\* [d1, dk] for all its curves, gives k rows in depth order, each with a
\* key for every curve.
C5_RoundTripAsClaimed ==
    (RTDone /\ IncreasingDepths(RTLas)) =>
        RoundTripHolds(RTLas.rows[1].depth.v, RTLas.rows[Len(RTLas.rows)].depth.v)

\* C5 as amended: when no depth is the null value, a query over the window
\* of the depths as stored, [round(d1, 4), round(dk, 4)], gives the k rows
\* in depth order, each with a key for every curve.
C5_RoundTrip ==
    (/\ RTDone
     /\ IncreasingDepths(RTLas)
     /\ \A i \in DOMAIN RTLas.rows : RTLas.rows[i].depth.v /= RTNull) =>
        RoundTripHolds(Round4(RTLas.rows[1].depth.v),
                       Round4(RTLas.rows[Len(RTLas.rows)].depth.v))

\* C5 witness: a file of two rows whose depths are not multiples of the
\* rounding unit, with a cell without reading, has been stored and queried
\* over the window of its stored depths, and both rows came back.
C5_Witness ==
    /\ RTDone
    /\ IncreasingDepths(RTLas)
    /\ Len(RTLas.rows) = 2
    /\ RTLas.rows[1].depth.v /= Round4(RTLas.rows[1].depth.v)
    /\ lastOp.op = "data"
    /\ lastOp.curves = RTParsed.curves
    /\ lastOp.depth_min = Some(Round4(RTLas.rows[1].depth.v))
    /\ lastOp.depth_max = Some(Round4(RTLas.rows[2].depth.v))
    /\ Len(qres) = 2
    /\ \E i \in DOMAIN qres : qres[i]["HC1"] = NoValue

\* The rows of the file that have a depth, in file order.
HasDepth(row) == ~row.depth.nan /\ row.depth.v /= RTNull
RTKept == SelectSeq(RTLas.rows, HasDepth)

\* A raw cell is the null value or NaN.
IsNullCell(cell) == cell.nan \/ cell.v = RTNull

\* C6, first half: a cell that is the declared null value or NaN is stored
\* as "no value".
NullCellsStoredAsNoValue ==
    /\ Cardinality(DataRowsOf(Val(sess[1].well_id))) = Len(RTKept)
    /\ \A i \in DOMAIN RTKept : \A mn \in Range(RTParsed.curves) :
          IsNullCell(RTKept[i].cells[mn]) => RTStored(i).values[mn] = NoValue

\* C6 as claimed: in addition, no stored curve value is the null value.
C6_SentinelNeverStored ==
    RTDone =>
       /\ NullCellsStoredAsNoValue
       /\ \A r \in dataT : \A mn \in DOMAIN r.values : r.values[mn] /= Some(RTNull)

\* C6 as amended: a cell that is the declared null value or NaN is stored
\* as "no value"; a stored value equals the null value only where the raw
\* cell is another number, which rounding to 4 decimals takes to it.
C6_NullCellsNoValue ==
    RTDone =>
       /\ NullCellsStoredAsNoValue
       /\ \A i \in DOMAIN RTKept : \A mn \in Range(RTParsed.curves) :
             RTStored(i).values[mn] = Some(RTNull) =>
                /\ ~IsNullCell(RTKept[i].cells[mn])
                /\ Round4(RTKept[i].cells[mn].v) = RTNull

\* C6 witness: a stored file with a NaN cell and a null-value cell in rows
\* that were kept.
C6_Witness ==
    /\ RTDone
    /\ \E i \in DOMAIN RTKept : RTKept[i].cells["HC1"].nan
    /\ \E i \in DOMAIN RTKept : RTKept[i].cells["HC1"] = Num(RTNull)

(***************************************************************************)
(* The interpretation service (services/ai_service.py).                    *)
(*                                                                         *)
(* A sample row and a statistics entry are Python dicts: functions from    *)
(* keys to optional numbers.  Quotients are kept as fractions [n, d] with  *)
(* d > 0 and compared by cross-multiplication.  max(x, 1e-9) is kept as a  *)
(* floor [eps, v]: eps is TRUE when the result is the 1e-9 itself; every   *)
(* positive quantity of the model is far above 1e-9.                       *)
(***************************************************************************)
\* Mnemonics of the model and what the string tests of
\* _fallback_interpretation make of them:
\* "HC" in c.upper() or "GAS" in c.upper() or c.upper().startswith("C")
IsHydroName(c) == c \in {"HC1", "hc2", "HC10", "HC4", "HC5", "TOTAL_GAS", "CALI"}
\* any(x in c.upper() for x in ["HC1", "HC2", "HC3"])
IsLightName(c) == c \in {"HC1", "hc2", "HC10"}
\* any(x in c.upper() for x in ["HC4", "HC5", "HC6", "HC7"])
IsHeavyName(c) == c \in {"HC4", "HC5"}

InterpMinPairs == 8
InterpMaxRows == 4000

\* _safe_float: None (and anything that is no number) becomes None.
SafeFloat(value) == IF IsSome(value) THEN Some(Val(value)) ELSE NoValue

RECURSIVE Gcd(_, _)
Gcd(a, b) == IF b = 0 THEN a ELSE Gcd(b, a % b)
Abs(x) == IF x < 0 THEN -x ELSE x

Frac(n, d) ==
    LET g == Gcd(Abs(n), d)
    IN IF n = 0 THEN [n |-> 0, d |-> 1] ELSE [n |-> n \div g, d |-> d \div g]
FracAdd(a, b) == Frac(a.n * b.d + b.n * a.d, a.d * b.d)
FracLe(a, b) == a.n * b.d <= b.n * a.d
FracLt(a, b) == a.n * b.d < b.n * a.d
\* a * (p / q)
FracScale(a, p, q) == Frac(a.n * p, a.d * q)

\* A divisor: eps is TRUE when it is the 1e-9 of a max(x, 1e-9).
Plain(x) == [eps |-> FALSE, v |-> x]
Floor9Dropped(x) == [eps |-> FALSE, v |-> x]
\* max(x, 1e-9)
Floor9(x) == IF x > 0 THEN [eps |-> FALSE, v |-> x] ELSE [eps |-> TRUE, v |-> 0]
\* A division by this floor raises ZeroDivisionError.
IsZeroFloor(f) == ~f.eps /\ f.v = 0

\* _mean of a sequence of numbers, None when it is empty.
Mean(values) ==
    IF values = <<>> THEN NoValue ELSE Some(Frac(SeqSum(values), Len(values)))

SortAscKeepOrder(values) == values
\* sorted(values)
RECURSIVE SortAsc(_)
SortAsc(values) ==
    IF values = <<>> THEN <<>>
    ELSE LET rest == SortAsc(Tail(values))
             k == Cardinality({i \in DOMAIN rest : rest[i] < Head(values)})
         IN SubSeq(rest, 1, k) \o <<Head(values)>> \o SubSeq(rest, k + 1, Len(rest))

\* The largest float, scaled down: a difference of two values above it
\* overflows to inf.
FloatMax == 50

\* inf, and the nan of 0.0 * inf: a float that no value is >= to.
Unordered == [n |-> 1, d |-> 0]

\* sorted_vals[lo] + frac * (sorted_vals[hi] - sorted_vals[lo]) with
\* frac = fr / qd and lo_val <= hi_val.
Interpolate(lo_val, hi_val, fr, qd) ==
    IF hi_val - lo_val > FloatMax THEN Unordered
    ELSE Frac(lo_val * qd + fr * (hi_val - lo_val), qd)

\* v >= threshold
ClearsStrictly(v, threshold) == v * threshold.d > threshold.n
Clears(v, threshold) == v * threshold.d >= threshold.n

\* _percentile(values, q) with q = qn / qd, as a fraction; None when empty.
Percentile(values, qn, qd) ==
    IF values = <<>> THEN NoValue
    ELSE LET sorted_vals == SortAsc(values)
             n == Len(sorted_vals)
             lo == (qn * (n - 1)) \div qd
             hi == Min2(lo + 1, n - 1)
             fr == (qn * (n - 1)) % qd
         IN IF n = 1 THEN Some(Frac(sorted_vals[1], 1))
            ELSE Some(Interpolate(sorted_vals[lo + 1], sorted_vals[hi + 1], fr, qd))

\* sample_data[::stride]
Strided(rows, stride) ==
    [i \in 1..((Len(rows) + stride - 1) \div stride) |-> rows[(i - 1) * stride + 1]]

RECURSIVE PairsOf(_, _)
PairsOf(rows, curve) ==
    IF rows = <<>> THEN <<>>
    ELSE LET depth == SafeFloat(DictGet(Head(rows), "depth"))
             value == SafeFloat(DictGet(Head(rows), curve))
         IN (IF IsSome(depth) /\ IsSome(value)
             THEN <<[d |-> Val(depth), v |-> Val(value)]>> ELSE <<>>)
            \o PairsOf(Tail(rows), curve)

\* _curve_pairs(sample_data, curve, max_rows)
CurvePairs(sample_data, curve, max_rows) ==
    IF sample_data = <<>> THEN <<>>
    ELSE PairsOf(Strided(sample_data, Max2(1, Len(sample_data) \div max_rows)), curve)

\* x or 0.0
OrZero(value) == IF IsSome(value) /\ Val(value) /= 0 THEN Val(value) ELSE 0

\* round(x, 1) of the quotient p / q, in raw units (1000 fourth decimals
\* to the tenth), halves going up.
Tenth == 1000 * RoundUnit
RoundTenth(p, q) == ((2 * p + q * Tenth) \div (2 * q * Tenth)) * Tenth
Round1(x) == RoundTenth(x, 1)

\* statistics.get(curve, {}).get("non_null_count", 0)
NonNullCount(statistics, curve) ==
    IF curve \in DOMAIN statistics /\ "non_null_count" \in DOMAIN statistics[curve]
    THEN statistics[curve].non_null_count ELSE 0

\* statistics.get(curve, {}).get(key)
StatGet(statistics, curve, key) ==
    IF curve \in DOMAIN statistics THEN DictGet(statistics[curve], key) ELSE NoValue

ValidCurvesNonNegative(curves, statistics) ==
    LET Test(curve) == NonNullCount(statistics, curve) >= 0
    IN SelectSeq(curves, Test)
\* valid_curves
ValidCurves(curves, statistics) ==
    LET Test(curve) == NonNullCount(statistics, curve) > 0
    IN SelectSeq(curves, Test)

\* stat_mean(curve_name)
StatMean(statistics, curve_name) ==
    OrZero(SafeFloat(StatGet(statistics, curve_name, "mean")))

\* sorted(names, key=stat_mean, reverse=True): stable, equal means keep
\* their order.
RECURSIVE SortedByMean(_, _)
SortedByMean(names, statistics) ==
    IF names = <<>> THEN <<>>
    ELSE LET n == Len(names)
             rest == SortedByMean(SubSeq(names, 1, n - 1), statistics)
             k == Cardinality({i \in DOMAIN rest :
                     StatMean(statistics, rest[i]) >= StatMean(statistics, names[n])})
         IN SubSeq(rest, 1, k) \o <<names[n]>> \o SubSeq(rest, k + 1, Len(rest))

\* seq[:n]
Take(seq, n) == SubSeq(seq, 1, Min2(n, Len(seq)))

\* ranked_hydro
RankedHydro(valid_curves, statistics) ==
    LET hydro_candidates == SelectSeq(valid_curves, IsHydroName)
    IN SortedByMean(IF hydro_candidates /= <<>> THEN hydro_candidates
                    ELSE Take(SortedByMean(valid_curves, statistics), 4), statistics)

\* total_light, total_heavy
TotalLight(ranked_hydro, statistics) ==
    LET light == SelectSeq(ranked_hydro, IsLightName)
    IN SeqSum([i \in DOMAIN light |-> StatMean(statistics, light[i])])
TotalHeavy(ranked_hydro, statistics) ==
    LET heavy == SelectSeq(ranked_hydro, IsHeavyName)
    IN SeqSum([i \in DOMAIN heavy |-> StatMean(statistics, heavy[i])])

\* wetness
Wetness(total_light, total_heavy) ==
    IF total_light + total_heavy > 0
    THEN Frac(total_heavy, total_light + total_heavy) ELSE Frac(0, 1)

FluidType(wetness) ==
    IF FracLe(wetness, Frac(17, 100)) THEN "dry gas system"
    ELSE IF FracLe(wetness, Frac(40, 100)) THEN "gas-prone hydrocarbon system"
    ELSE IF FracLe(wetness, Frac(65, 100)) THEN "mixed gas and oil system"
    ELSE "oil-prone or condensate-rich system"

SetMin(S) == CHOOSE x \in S : \A y \in S : x <= y
SetMax(S) == CHOOSE x \in S : \A y \in S : x >= y

\* high_interval(curve_name) with the pair minimum of the caller.
HighInterval(sample_data, curve_name, max_rows, min_pairs) ==
    LET pairs == CurvePairs(sample_data, curve_name, max_rows)
        values == [i \in DOMAIN pairs |-> pairs[i].v]
        threshold == Percentile(values, 9, 10)
        depths == {pairs[i].d : i \in {j \in DOMAIN pairs :
                      Clears(pairs[j].v, Val(threshold))}}
    IN IF Len(pairs) < min_pairs THEN NoValue
       ELSE IF ~IsSome(threshold) THEN NoValue
       ELSE IF depths = {} THEN NoValue
       ELSE Some([top |-> Round1(SetMin(depths)), bottom |-> Round1(SetMax(depths)),
                  threshold |-> Val(threshold)])

\* gas_shows
RECURSIVE GasShows(_, _)
GasShows(sample_data, graded) ==
    IF graded = <<>> THEN <<>>
    ELSE LET interval == HighInterval(sample_data, Head(graded).curve,
                                      InterpMaxRows, InterpMinPairs)
         IN (IF ~IsSome(interval) THEN <<>>
             ELSE <<[depth_top |-> Val(interval).top,
                     depth_bottom |-> Val(interval).bottom,
                     analysis |-> [curve |-> Head(graded).curve,
                                   threshold |-> Val(interval).threshold],
                     fluid_probability |-> Head(graded).confidence,
                     geological_context |-> Head(graded).curve]>>)
            \o GasShows(sample_data, Tail(graded))

\* zone_bounds, each bound as a number of thirds.
ZoneBounds(depth_min, depth_max) ==
    <<[lo |-> 3 * depth_min, hi |-> 3 * depth_min + (depth_max - depth_min)],
      [lo |-> 3 * depth_min + (depth_max - depth_min),
       hi |-> 3 * depth_min + 2 * (depth_max - depth_min)],
      [lo |-> 3 * depth_min + 2 * (depth_max - depth_min), hi |-> 3 * depth_max]>>

\* curve_vals of a row
RECURSIVE RowCurveVals(_, _)
RowCurveVals(row, names) ==
    IF names = <<>> THEN <<>>
    ELSE LET val == SafeFloat(DictGet(row, Head(names)))
         IN (IF IsSome(val) THEN <<Val(val)>> ELSE <<>>) \o RowCurveVals(row, Tail(names))

\* values of zone_intensity: the per-row averages of the rows of the band.
RECURSIVE BandValues(_, _, _)
BandValues(rows, top3, band) ==
    IF rows = <<>> THEN <<>>
    ELSE LET depth == SafeFloat(DictGet(Head(rows), "depth"))
             curve_vals == RowCurveVals(Head(rows), top3)
         IN (IF ~IsSome(depth) \/ 3 * Val(depth) < band.lo \/ 3 * Val(depth) > band.hi
             THEN <<>>
             ELSE IF curve_vals /= <<>>
                  THEN <<Frac(SeqSum(curve_vals), Len(curve_vals))>> ELSE <<>>)
            \o BandValues(Tail(rows), top3, band)

RECURSIVE FracSum(_)
FracSum(fracs) == IF fracs = <<>> THEN Frac(0, 1) ELSE FracAdd(Head(fracs), FracSum(Tail(fracs)))

\* zone_intensity(start_d, end_d)
ZoneIntensity(sample_data, top3, band) ==
    LET values == BandValues(sample_data, top3, band)
    IN IF sample_data = <<>> \/ values = <<>> THEN Frac(0, 1)
       ELSE FracScale(FracSum(values), 1, Len(values))

ZoneLabelSwapped(intensity, overall) ==
    IF overall.n > 0 /\ FracLe(FracScale(overall, 85, 100), intensity)
    THEN "gas-enriched zone"
    ELSE IF overall.n > 0 /\ FracLe(FracScale(overall, 12, 10), intensity)
    THEN "mixed fluid zone"
    ELSE "lower-intensity hydrocarbon zone"
\* The label of a zone from relative = intensity / max(overall, 1e-9).
ZoneLabel(intensity, overall) ==
    IF overall.n > 0 /\ FracLe(FracScale(overall, 12, 10), intensity)
    THEN "gas-enriched zone"
    ELSE IF overall.n > 0 /\ FracLe(FracScale(overall, 85, 100), intensity)
    THEN "mixed fluid zone"
    ELSE "lower-intensity hydrocarbon zone"

\* A division by this divisor raises ZeroDivisionError (IsZeroFloor).
\* num / divisor > p / q
Exceeds(num, divisor, p, q) ==
    IF divisor.eps THEN num > 0 ELSE num * q > p * divisor.v

\* deep < (p / q) * max(shallow, 1e-9)
Below(deep, shallow, p, q) ==
    IF shallow.n > 0 THEN FracLt(deep, FracScale(shallow, p, q)) ELSE deep.n <= 0

FixedKeys ==
    {"summary", "geochemical_metrics", "gas_shows", "fluid_type", "fluid_evidence",
     "risk_profile", "zones", "recommendations"}

Returned(value) == [status |-> "returned", error |-> "", value |-> value]
Raised(error) == [status |-> "raised", error |-> error, value |-> <<>>]

\* The object returned when valid_curves is empty.
InsufficientData(well_name, depth_min, depth_max) ==
    [summary |-> [kind |-> "No valid numeric samples were found",
                  depth_min |-> depth_min, depth_max |-> depth_max,
                  well_name |-> well_name],
     geochemical_metrics |-> [wetness_index |-> "n/a, insufficient data",
                              balance_ratio |-> "n/a, insufficient data",
                              character_ratio |-> "n/a, insufficient data"],
     gas_shows |-> <<>>,
     fluid_type |-> "insufficient data",
     fluid_evidence |-> "No curves with valid points were available in the selected interval.",
     risk_profile |-> [seal_risk |-> "High", saturation_risk |-> "High",
                       technical_summary |-> "Interpretation confidence is low due to missing valid curve values."],
     zones |-> <<>>,
     recommendations |->
        <<"Verify data quality and null-value handling for the selected interval.",
          "Expand depth interval or include additional valid curves before interpretation.">>]

\* _fallback_interpretation.  The texts it formats are kept by the names
\* and labels they are made of.  The outcome is the returned object, or the
\* exception of the first statement that raises: ranked_hydro[0] on an
\* empty list, a division by zero.
FallbackInterpretation(well_name, curves, depth_min, depth_max, statistics, sample_data) ==
    LET valid_curves == ValidCurves(curves, statistics)
        ranked_hydro == RankedHydro(valid_curves, statistics)
        primary_curve == ranked_hydro[1]
        secondary_curve == IF Len(ranked_hydro) > 1 THEN ranked_hydro[2] ELSE ranked_hydro[1]
        total_light == TotalLight(ranked_hydro, statistics)
        total_heavy == TotalHeavy(ranked_hydro, statistics)
        wetness == Wetness(total_light, total_heavy)
        fluid_type == FluidType(wetness)
        gas_shows == GasShows(sample_data,
                        <<[curve |-> primary_curve, confidence |-> "High"],
                          [curve |-> secondary_curve, confidence |-> "Med"]>>)
        zone_bounds == ZoneBounds(depth_min, depth_max)
        top3 == Take(ranked_hydro, 3)
        intensity == [i \in 1..3 |-> ZoneIntensity(sample_data, top3, zone_bounds[i])]
        overall_intensity == FracScale(FracSum(intensity), 1, 3)
        zones == [i \in 1..3 |->
                    [depth_top |-> RoundTenth(zone_bounds[i].lo, 3),
                     depth_bottom |-> RoundTenth(zone_bounds[i].hi, 3),
                     characterization |-> ZoneLabel(intensity[i], overall_intensity),
                     key_markers |-> top3]]
        p_min == OrZero(SafeFloat(StatGet(statistics, primary_curve, "min")))
        p_max == OrZero(SafeFloat(StatGet(statistics, primary_curve, "max")))
        p_mean == Floor9(OrZero(SafeFloat(StatGet(statistics, primary_curve, "mean"))))
        seal_risk == IF Exceeds(p_max - p_min, p_mean, 22, 10) THEN "High"
                     ELSE IF Exceeds(p_max - p_min, p_mean, 12, 10) THEN "Med" ELSE "Low"
        saturation_risk == IF Below(intensity[3], intensity[1], 55, 100) THEN "High"
                           ELSE IF Below(intensity[3], intensity[1], 8, 10) THEN "Med"
                           ELSE "Low"
        divisors ==
            (IF total_light + total_heavy > 0 THEN {Plain(total_light + total_heavy)} ELSE {})
            \cup (IF "TOTAL_GAS" \in DOMAIN statistics
                  THEN {Floor9(StatMean(statistics, primary_curve))} ELSE {})
            \cup (IF total_light > 0 THEN {Floor9(total_light)} ELSE {})
            \cup (IF overall_intensity.n > 0 THEN {Floor9(overall_intensity.n)} ELSE {})
            \cup {p_mean}
    IN IF valid_curves = <<>>
       THEN Returned(InsufficientData(well_name, depth_min, depth_max))
       ELSE IF ranked_hydro = <<>> THEN Raised("IndexError")
       ELSE IF \E f \in divisors : IsZeroFloor(f) THEN Raised("ZeroDivisionError")
       ELSE Returned(
         [summary |-> [kind |-> "strongest responses", depth_min |-> Round1(depth_min),
                       depth_max |-> Round1(depth_max), primary |-> primary_curve,
                       secondary |-> secondary_curve, fluid_type |-> fluid_type],
          geochemical_metrics |-> [wetness_index |-> "(derived)",
                                   balance_ratio |-> "(derived)",
                                   character_ratio |-> "(derived)"],
          gas_shows |-> gas_shows,
          fluid_type |-> fluid_type,
          fluid_evidence |-> [primary |-> primary_curve, secondary |-> secondary_curve],
          risk_profile |-> [seal_risk |-> seal_risk, saturation_risk |-> saturation_risk,
                            technical_summary |-> [seal_risk |-> seal_risk,
                                                   saturation_risk |-> saturation_risk,
                                                   primary |-> primary_curve]],
          zones |-> zones,
          recommendations |->
             <<"Validate the primary and secondary curves with complementary petrophysical logs.",
               "Run focused sampling/coring across highest-response intervals to confirm fluid typing.",
               "Cross-check drilling parameters versus hydrocarbon intensity transitions between zones.">>])

(***************************************************************************)
(* Calls of the Deterministic Interpreter.                                 *)
(***************************************************************************)
MaxSampleRows == 9

StatEmpty == [min |-> NoValue, max |-> NoValue, mean |-> NoValue,
              count |-> 0, non_null_count |-> 0]
StatOf(lo, hi, mean) == [min |-> Some(lo), max |-> Some(hi), mean |-> Some(mean),
                         count |-> 9, non_null_count |-> 9]
\* Valid points counted, min/max/mean undefined.
StatUndefined == [min |-> NoValue, max |-> NoValue, mean |-> NoValue,
                  count |-> 9, non_null_count |-> 3]

\* A statistics mapping: the entry of each curve, or none.
InterpStatistics ==
    {[c \in {k \in DOMAIN f : IsSome(f[k])} |-> Val(f[c])] :
        f \in [HC1 : {NoValue, Some(StatEmpty), Some(StatOf(1, 9, 4)), Some(StatOf(0 - 2, 2, 0)),
                      Some(StatOf(0 - 9, 0 - 1, 0 - 4)), Some(StatUndefined)},
               HC4 : {NoValue, Some(StatEmpty), Some(StatOf(1, 1, 1)), Some(StatOf(0, 20, 6)),
                      Some(StatOf(0, 0, 0)), Some(StatUndefined)},
               GR : {NoValue, Some(StatEmpty), Some(StatOf(2, 12, 9))},
               TOTAL_GAS : {NoValue, Some(StatOf(1, 5, 4))}]}

InterpCurveLists ==
    {<<>>, <<"GR">>, <<"ROP">>, <<"HC1", "HC4">>, <<"HC4", "HC1", "HC1">>,
     <<"GR", "HC1", "TOTAL_GAS", "HC4">>}

InterpWindows == {<<0 - 500, 9000>>, <<0, 9000>>, <<4000, 4000>>, <<9000, 1000>>}

\* Sample rows: a ramp, a constant, and a ramp with rows that lack the
\* depth, hold an undefined value or lack a curve.
SampleRow(pattern, i, n) ==
    IF pattern = "ramp"
    THEN ("depth" :> Some(1000 * i)) @@ ("HC1" :> Some(i)) @@ ("HC4" :> Some(n + 1 - i))
         @@ ("GR" :> Some(5))
    ELSE IF pattern = "flat"
    THEN ("depth" :> Some(1000 * i)) @@ ("HC1" :> Some(2)) @@ ("HC4" :> Some(2))
    ELSE IF i % 3 = 2 THEN ("HC1" :> Some(i)) @@ ("HC4" :> Some(1))
    ELSE IF i % 3 = 0 THEN ("depth" :> Some(1000 * i)) @@ ("HC1" :> NoValue)
    ELSE ("depth" :> NoValue) @@ ("HC1" :> Some(i)) @@ ("HC4" :> Some(0 - i))

InterpSamples ==
    {[i \in 1..n |-> SampleRow(pattern, i, n)] :
        n \in {0, 1, MaxSampleRows - 1, MaxSampleRows},
        pattern \in {"ramp", "flat", "gaps"}}

\* _fallback_interpretation(well_name, curves, depth_min, depth_max,
\* statistics, sample_data) called and returning or raising.
CallFallback ==
    /\ call.op = "none"
    /\ \E curves \in InterpCurveLists, window \in InterpWindows,
          statistics \in InterpStatistics, sample_data \in InterpSamples :
          /\ call' = [op |-> "fallback", well_name |-> "A", curves |-> curves,
                      depth_min |-> window[1], depth_max |-> window[2],
                      statistics |-> statistics, sample_data |-> sample_data]
          /\ out' = FallbackInterpretation("A", curves, window[1], window[2],
                                           statistics, sample_data)
    /\ UNCHANGED <<blobs, tableVars, nextWellId, sess, ingests, readVars, keys, client>>

\* The caller takes the outcome.
ReturnCall ==
    /\ call.op /= "none"
    /\ call' = NoCall
    /\ out' = NoCall
    /\ UNCHANGED <<blobs, tableVars, nextWellId, sess, ingests, readVars, keys, client>>

NextInterp ==
    \/ CallFallback
    \/ ReturnCall

SpecInterp == Init /\ [][NextInterp]_vars

\* C8: every call of the Deterministic Interpreter returns, without
\* raising, an object that has exactly the eight fixed keys (so it is not
\* empty), whatever the curve list, the statistics mapping, the sample rows
\* and the depth bounds.
C8_FallbackTotal ==
    call.op = "fallback" =>
        /\ out.status = "returned"
        /\ DOMAIN out.value = FixedKeys

\* A call with a curve missing from the statistics, a valid curve whose
\* mean is undefined or zero, and sample rows that lack the depth.
C8_Witness ==
    /\ call.op = "fallback"
    /\ out.status = "returned"
    /\ \E c \in Range(call.curves) : c \notin DOMAIN call.statistics
    /\ \E c \in Range(call.curves) :
          /\ NonNullCount(call.statistics, c) > 0
          /\ StatMean(call.statistics, c) = 0
    /\ \E i \in DOMAIN call.sample_data : "depth" \notin DOMAIN call.sample_data[i]
    /\ Len(out.value.zones) = 3

\* C10: when no supplied curve has non_null_count > 0 the interpreter
\* returns the insufficient-data object (both risks "High", no zones, no
\* gas shows, fluid type "insufficient data", two recommendations), and the
\* same object for every sequence of sample rows.
C10_InsufficientData ==
    (/\ call.op = "fallback"
     /\ ~\E c \in Range(call.curves) : NonNullCount(call.statistics, c) > 0) =>
        /\ out.status = "returned"
        /\ out.value.risk_profile.seal_risk = "High"
        /\ out.value.risk_profile.saturation_risk = "High"
        /\ out.value.zones = <<>>
        /\ out.value.gas_shows = <<>>
        /\ out.value.fluid_type = "insufficient data"
        /\ Len(out.value.recommendations) = 2
        /\ \A sample_data \in InterpSamples :
              FallbackInterpretation(call.well_name, call.curves, call.depth_min,
                                     call.depth_max, call.statistics, sample_data) = out

\* A call with curves whose statistics all count no valid point, on a
\* non-empty sequence of sample rows.
C10_Witness ==
    /\ call.op = "fallback"
    /\ call.curves /= <<>>
    /\ \E c \in Range(call.curves) : c \in DOMAIN call.statistics
    /\ \A c \in Range(call.curves) : NonNullCount(call.statistics, c) = 0
    /\ call.sample_data /= <<>>
    /\ out.status = "returned"
    /\ out.value.fluid_type = "insufficient data"

(***************************************************************************)
(* The generative backend: get_ai_client, _extract_json_object,            *)
(* interpret_well_data and chat_with_data.                                 *)
(*                                                                         *)
(* A response text is a sequence of tokens: "obj1" and "obj2" are          *)
(* well-formed JSON objects, "num" a JSON scalar, "[" and "]" the brackets *)
(* of a JSON array, "{" a brace that opens no well-formed object, "prose"  *)
(* any other words, "fence" a line of three backquotes and "json" the      *)
(* language tag.  White space between tokens is not kept.                  *)
(***************************************************************************)
MaxTokens == 3
PromptMaxRows == 30

\* is_placeholder(key): not key, "your_key" or "sk-proj-XXX" in key, or
\* len(key) < 20, on the keys of the model.
IsPlaceholder(key) == key \in {"", "your_key_here", "sk-proj-XXX", "short"}

\* get_ai_client(): the module state after the call.
GetAiClient(state, settings) ==
    IF IsSome(state.client) THEN state
    ELSE IF ~IsPlaceholder(settings.groq)
    THEN [client |-> Some([api_key |-> settings.groq,
                           base_url |-> "https://api.groq.com/openai/v1"]),
          provider |-> "GROQ", model_name |-> "llama-3.3-70b-versatile"]
    ELSE IF ~IsPlaceholder(settings.openai)
    THEN [client |-> Some([api_key |-> settings.openai, base_url |-> ""]),
          provider |-> "OPENAI", model_name |-> "gpt-4o"]
    ELSE state

Tokens == {"obj1", "obj2", "num", "[", "]", "{", "prose", "fence", "json"}
IsObject(token) == token \in {"obj1", "obj2"}

\* json.loads / raw_decode of a value that starts at token i: the index
\* after the value, 0 when there is no value there.
RECURSIVE DecodeValue(_, _)
RECURSIVE DecodeElements(_, _)
DecodeValue(text, i) ==
    IF i > Len(text) THEN 0
    ELSE IF IsObject(text[i]) \/ text[i] = "num" THEN i + 1
    ELSE IF text[i] = "[" THEN DecodeElements(text, i + 1)
    ELSE 0
DecodeElements(text, i) ==
    IF i > Len(text) THEN 0
    ELSE IF text[i] = "]" THEN i + 1
    ELSE IF DecodeValue(text, i) = 0 THEN 0
    ELSE DecodeElements(text, DecodeValue(text, i))

\* The fences and the language tag taken off the text.
StripFences(text) ==
    LET opened == IF text /= <<>> /\ Head(text) = "fence" THEN Tail(text) ELSE text
        closed == IF opened /= <<>> /\ opened[Len(opened)] = "fence"
                  THEN SubSeq(opened, 1, Len(opened) - 1) ELSE opened
    IN IF closed /= <<>> /\ Head(closed) = "json" THEN Tail(closed) ELSE closed

\* The scan from each "{": the first one where raw_decode gives a dict.
RECURSIVE ScanObjects(_, _)
ScanObjects(candidate, start) ==
    IF start > Len(candidate) THEN NoValue
    ELSE IF IsObject(candidate[start]) THEN Some(candidate[start])
    ELSE ScanObjects(candidate, start + 1)

\* _extract_json_object(text)
ExtractJsonObject(text) ==
    LET candidate == StripFences(text)
    IN IF text = <<>> THEN NoValue
       ELSE IF DecodeValue(candidate, 1) = Len(candidate) + 1
       THEN (IF Len(candidate) = 1 /\ IsObject(candidate[1])
             THEN Some(candidate[1]) ELSE NoValue)
       ELSE ScanObjects(candidate, 1)

\* What the backend does with a request: it raises, answers without a
\* choice, or answers with a content that is None or a text.
Behaviour(kind, message, content) == [kind |-> kind, message |-> message, content |-> content]
NotCalled == Behaviour("not called", "", NoValue)
Texts == UNION {[1..n -> Tokens] : n \in 0..MaxTokens}
BackendBehaviours ==
    {Behaviour("raises", "timeout", NoValue),
     Behaviour("raises", "insufficient_quota", NoValue),
     Behaviour("no choices", "", NoValue),
     Behaviour("content", "", NoValue)}
    \cup {Behaviour("content", "", Some(text)) : text \in Texts}

\* _format_statistics raises KeyError on an entry without non_null_count,
\* _format_sample_data on a sampled row without depth.
FormatStatisticsRaises(stats) ==
    \E curve \in DOMAIN stats : "non_null_count" \notin DOMAIN stats[curve]
FormatSampleDataRaises(data, max_rows) ==
    LET sampled == Take(Strided(data, Max2(1, Len(data) \div max_rows)), max_rows)
    IN data /= <<>> /\ \E i \in DOMAIN sampled : "depth" \notin DOMAIN sampled[i]

\* interpret_well_data after get_ai_client() gave state.
InterpretWellData(state, behaviour, well_name, curves, depth_min, depth_max, statistics, sample_data) ==
    LET fallback == FallbackInterpretation(well_name, curves, depth_min, depth_max,
                                           statistics, sample_data)
        parsed == ExtractJsonObject(Val(behaviour.content))
    IN IF ~IsSome(state.client) THEN fallback
       ELSE IF FormatStatisticsRaises(statistics)
               \/ FormatSampleDataRaises(sample_data, PromptMaxRows)
       THEN Raised("KeyError")
       ELSE IF behaviour.kind /= "content" THEN fallback
       ELSE IF ~IsSome(behaviour.content) THEN fallback
       ELSE IF IsSome(parsed) THEN Returned([object |-> Val(parsed)])
       ELSE fallback

\* chat_with_data after get_ai_client() gave state.
ChatWithData(state, behaviour) ==
    IF ~IsSome(state.client)
    THEN Returned([text |-> "AI chatbot is not available.", provider |-> ""])
    ELSE IF behaviour.kind = "raises" /\ behaviour.message = "insufficient_quota"
    THEN Returned([text |-> "AI chat is unavailable because API quota is exhausted.",
                   provider |-> ""])
    ELSE IF behaviour.kind /= "content"
    THEN Returned([text |-> "AI chat is unavailable due to an API error.",
                   provider |-> state.provider])
    ELSE IF ~IsSome(behaviour.content) \/ behaviour.content = Some(<<>>)
    THEN Returned([text |-> "No response was generated.", provider |-> ""])
    ELSE Returned([text |-> "answer", provider |-> ""])

\* What the interpret route hands over: the rows of get_well_data and the
\* statistics of get_well_statistics for the same curves.
BackendRows ==
    {<<>>,
     <<[depth |-> 0, values |-> ("HC1" :> Some(3))],
       [depth |-> 3, values |-> ("HC1" :> NoValue) @@ ("HC2" :> Some(6))],
       [depth |-> 6, values |-> ("HC1" :> Some(9))]>>}
BackendCurveLists == {<<"HC1">>, <<"HC1", "HC2">>}
BackendData(rows, curves) == [i \in DOMAIN rows |-> Point(rows[i], curves)]

InitAI ==
    /\ wells = {}
    /\ curvesT = {}
    /\ dataT = {}
    /\ nextWellId = 1
    /\ sess = [s \in Sessions |-> IdleSession]
    /\ ingests = 0
    /\ blobs = {}
    /\ lastOp = NoRead
    /\ qres = <<>>
    /\ qstats = <<>>
    /\ keys \in KeyConfigs
    /\ client = NoClient
    /\ call = NoCall
    /\ out = NoCall

\* interpret_well_data(well_name, curves, depth_min, depth_max, statistics,
\* sample_data) with the behaviour of the backend, when it is called.
CallInterpret ==
    /\ call.op = "none"
    /\ client' = GetAiClient(client, keys)
    /\ \E rows \in BackendRows, curves \in BackendCurveLists,
          behaviour \in (IF IsSome(GetAiClient(client, keys).client)
                         THEN BackendBehaviours ELSE {NotCalled}) :
          LET sample_data == BackendData(rows, curves)
              statistics == GetWellStatistics(sample_data, curves)
          IN /\ call' = [op |-> "interpret", well_name |-> "A", curves |-> curves,
                         depth_min |-> 0, depth_max |-> 6, statistics |-> statistics,
                         sample_data |-> sample_data, behaviour |-> behaviour]
             /\ out' = InterpretWellData(client', behaviour, "A", curves, 0, 6,
                                         statistics, sample_data)
    /\ UNCHANGED <<blobs, tableVars, nextWellId, sess, ingests, readVars, keys>>

\* chat_with_data(well_name, message, history, well_summary, data_context,
\* detail_level) with the behaviour of the backend, when it is called.
CallChat ==
    /\ call.op = "none"
    /\ client' = GetAiClient(client, keys)
    /\ \E detail_level \in {0, 3, 9},
          behaviour \in (IF IsSome(GetAiClient(client, keys).client)
                         THEN BackendBehaviours ELSE {NotCalled}) :
          /\ call' = [op |-> "chat", well_name |-> "A",
                      normalized_detail |->
                          Max2(1, Min2(5, IF detail_level = 0 THEN 3 ELSE detail_level)),
                      behaviour |-> behaviour]
          /\ out' = ChatWithData(client', behaviour)
    /\ UNCHANGED <<blobs, tableVars, nextWellId, sess, ingests, readVars, keys>>

NextBackend ==
    \/ CallInterpret
    \/ CallChat
    \/ ReturnCall

SpecBackend == InitAI /\ [][NextBackend]_vars

\* The backend was called and answered with a text.
Answered == call.behaviour.kind = "content" /\ IsSome(call.behaviour.content)

\* C9: neither operation raises; interpret_well_data returns the JSON
\* object of the backend when the backend answered with a text that
\* contains one and the Deterministic Interpreter's result in every other
\* case; chat_with_data returns a fixed "unavailable" text when no client is
\* configured or the call of the backend raises.
C9_BackendFailuresAbsorbed ==
    /\ call.op \in {"interpret", "chat"} => out.status = "returned"
    /\ call.op = "interpret" =>
          IF Answered /\ \E i \in DOMAIN Val(call.behaviour.content) :
                            IsObject(Val(call.behaviour.content)[i])
          THEN \E i \in DOMAIN Val(call.behaviour.content) :
                  /\ IsObject(Val(call.behaviour.content)[i])
                  /\ out.value = [object |-> Val(call.behaviour.content)[i]]
          ELSE out = FallbackInterpretation(call.well_name, call.curves, call.depth_min,
                                            call.depth_max, call.statistics,
                                            call.sample_data)
    /\ (call.op = "chat" /\ call.behaviour.kind \in {"not called", "raises"}) =>
          out.value.text \in {"AI chatbot is not available.",
                              "AI chat is unavailable because API quota is exhausted.",
                              "AI chat is unavailable due to an API error."}

(***************************************************************************)
(* The chat route (routers/chat.py): the curves of the context.            *)
(***************************************************************************)
MAX_CONTEXT_CURVES == 12
MaxRequest == 3

DEFAULT_CONTEXT_CURVES ==
    <<"TOTAL_GAS", "HC1", "HC2", "HC3", "HC4", "HC5", "HC6", "ROP(ft/hr)", "ROP(MIN/FT)",
      "AROM", "BEN_TOL", "NAPH", "PARA">>

\* The mnemonics of the model in the order of sorted(): by code point,
\* upper case before lower case.
NameOrder ==
    <<"AROM", "BEN_TOL", "CALI", "GR", "HC1", "HC10", "HC2", "HC3", "HC4", "HC5", "HC6",
      "NAPH", "PARA", "ROP", "ROP(MIN/FT)", "ROP(ft/hr)", "TOTAL_GAS", "UNKNOWN_X",
      "hc1", "hc2">>

\* sorted(names) of a set of mnemonics
SortedNames(names) ==
    LET Test(name) == name \in names
    IN SelectSeq(NameOrder, Test)

\* The for loop over requested_curves: selected and ignored.
RECURSIVE SelectLoopKeepAll(_, _, _, _)
SelectLoopKeepAll(requested, available_names, selected, ignored) ==
    IF requested = <<>> THEN [selected |-> selected, ignored |-> ignored]
    ELSE LET curve == Head(requested)
         IN IF curve \in available_names
            THEN SelectLoopKeepAll(Tail(requested), available_names,
                                   Append(selected, curve), ignored)
            ELSE IF curve \notin available_names /\ curve \notin Range(ignored)
            THEN SelectLoopKeepAll(Tail(requested), available_names, selected,
                                   Append(ignored, curve))
            ELSE SelectLoopKeepAll(Tail(requested), available_names, selected, ignored)
RECURSIVE SelectLoop(_, _, _, _)
SelectLoop(requested, available_names, selected, ignored) ==
    IF requested = <<>> THEN [selected |-> selected, ignored |-> ignored]
    ELSE LET curve == Head(requested)
         IN IF curve \in available_names /\ curve \notin Range(selected)
            THEN SelectLoop(Tail(requested), available_names, Append(selected, curve), ignored)
            ELSE IF curve \notin available_names /\ curve \notin Range(ignored)
            THEN SelectLoop(Tail(requested), available_names, selected, Append(ignored, curve))
            ELSE SelectLoop(Tail(requested), available_names, selected, ignored)

\* The padding loop over sorted(available_names).
RECURSIVE PadFallbackReversed(_, _)
PadFallbackReversed(fallback, names) ==
    IF names = <<>> THEN fallback
    ELSE LET n == Len(names)
             padded == IF names[n] \notin Range(fallback)
                       THEN Append(fallback, names[n]) ELSE fallback
         IN IF Len(padded) >= MAX_CONTEXT_CURVES THEN padded
            ELSE PadFallbackReversed(padded, SubSeq(names, 1, n - 1))
RECURSIVE PadFallback(_, _)
PadFallback(fallback, names) ==
    IF names = <<>> THEN fallback
    ELSE LET padded == IF Head(names) \notin Range(fallback)
                       THEN Append(fallback, Head(names)) ELSE fallback
         IN IF Len(padded) >= MAX_CONTEXT_CURVES THEN padded
            ELSE PadFallback(padded, Tail(names))

\* _select_context_curves(requested_curves, available_curves), on the set
\* of the mnemonics of available_curves.
SelectContextCurves(requested_curves, available_names) ==
    LET loop == SelectLoop(requested_curves, available_names, <<>>, <<>>)
        Available(curve) == curve \in available_names
        defaults == SelectSeq(DEFAULT_CONTEXT_CURVES, Available)
        fallback == IF Len(defaults) < MAX_CONTEXT_CURVES
                    THEN PadFallback(defaults, SortedNames(available_names))
                    ELSE defaults
    IN IF loop.selected /= <<>>
       THEN [analyzed |-> Take(loop.selected, MAX_CONTEXT_CURVES),
             ignored |-> loop.ignored, mode |-> "user_selected"]
       ELSE [analyzed |-> Take(fallback, MAX_CONTEXT_CURVES),
             ignored |-> loop.ignored, mode |-> "default_subset"]

\* Requests: every short list over a few names, and long lists.
RequestNames == {"HC1", "hc1", "UNKNOWN_X", "GR"}
SelectRequests ==
    UNION {[1..n -> RequestNames] : n \in 0..MaxRequest}
    \cup {SubSeq(NameOrder, 1, n) : n \in 12..14}
    \cup {[i \in 1..Len(NameOrder) |-> NameOrder[Len(NameOrder) + 1 - i]],
          NameOrder \o NameOrder}
SelectAvailable ==
    {{}, {"HC1"}, {"HC1", "hc1", "GR"}, {"GR", "CALI", "hc2"},
     Range(DEFAULT_CONTEXT_CURVES), Range(NameOrder),
     Range(NameOrder) \ Range(DEFAULT_CONTEXT_CURVES),
     Range(NameOrder) \ {"HC2", "HC3", "UNKNOWN_X"}}

\* _select_context_curves called by the chat route.
CallSelect ==
    /\ call.op = "none"
    /\ \E requested \in SelectRequests, available \in SelectAvailable :
          /\ call' = [op |-> "select", requested |-> requested, available |-> available]
          /\ out' = SelectContextCurves(requested, available)
    /\ UNCHANGED <<blobs, tableVars, nextWellId, sess, ingests, readVars, keys, client>>

\* The position of the first occurrence of x in seq.
FirstIndex(seq, x) == CHOOSE i \in DOMAIN seq : seq[i] = x /\ \A j \in 1..(i - 1) : seq[j] /= x
NoDuplicates(seq) == \A i, j \in DOMAIN seq : i /= j => seq[i] /= seq[j]
\* res is made of the min(cap, number of distinct names) names of S that come
\* first in seq, without duplicates and in the order of their first
\* occurrence.
FirstDistinct(res, seq, S, cap) ==
    /\ NoDuplicates(res)
    /\ Range(res) \subseteq Range(seq) \cap S
    /\ Len(res) = Min2(cap, Cardinality(Range(seq) \cap S))
    /\ \A i, j \in DOMAIN res : i < j => FirstIndex(seq, res[i]) < FirstIndex(seq, res[j])
    /\ \A x \in (Range(seq) \cap S) \ Range(res) :
          \A i \in DOMAIN res : FirstIndex(seq, res[i]) < FirstIndex(seq, x)

Recognized == Range(call.requested) \cap call.available

\* C11: when a requested name is available, the analyzed set is the distinct
\* requested names that are available, in request order, cut to the first
\* 12, the mode is "user_selected", the ignored list is the distinct
\* requested names that are not available, and no name that is not
\* available is ever analyzed.
C11_UserSelected ==
    call.op = "select" =>
        /\ Range(out.analyzed) \subseteq call.available
        /\ Recognized /= {} =>
              /\ out.mode = "user_selected"
              /\ FirstDistinct(out.analyzed, call.requested, call.available,
                               MAX_CONTEXT_CURVES)
              /\ NoDuplicates(out.ignored)
              /\ Range(out.ignored) = Range(call.requested) \ call.available

\* A request with repeated names, more than 12 of them available and three
\* not available.
C11_Witness ==
    /\ call.op = "select"
    /\ out.mode = "user_selected"
    /\ ~NoDuplicates(call.requested)
    /\ Cardinality(Recognized) > MAX_CONTEXT_CURVES
    /\ Len(out.analyzed) = MAX_CONTEXT_CURVES
    /\ Len(out.ignored) = 3

\* The default subset in the words of the claim.
DefaultSubset(available) ==
    LET IsAvailable(curve) == curve \in available
        IsRemaining(curve) == curve \in available \ Range(DEFAULT_CONTEXT_CURVES)
    IN Take(SelectSeq(DEFAULT_CONTEXT_CURVES, IsAvailable)
            \o SelectSeq(NameOrder, IsRemaining), MAX_CONTEXT_CURVES)

\* C12: when no requested name is available the mode is "default_subset" and
\* the analyzed set is the available entries of the default priority list,
\* in priority order, then the remaining available curves in lexicographic
\* order, cut to 12 curves, without duplicates and all available.
C12_DefaultSubset ==
    (call.op = "select" /\ Recognized = {}) =>
        /\ out.mode = "default_subset"
        /\ out.analyzed = DefaultSubset(call.available)
        /\ NoDuplicates(out.analyzed)
        /\ Range(out.analyzed) \subseteq call.available
        /\ Len(out.analyzed) <= MAX_CONTEXT_CURVES

\* A default subset that holds default entries and padding and is cut.
C12_Witness ==
    /\ call.op = "select"
    /\ out.mode = "default_subset"
    /\ Cardinality(call.available) > MAX_CONTEXT_CURVES
    /\ Len(out.analyzed) = MAX_CONTEXT_CURVES
    /\ out.analyzed[1] = "TOTAL_GAS"
    /\ \E i \in DOMAIN out.analyzed : out.analyzed[i] \notin Range(DEFAULT_CONTEXT_CURVES)

(***************************************************************************)
(* Curves mentioned in a chat message.  A text is the sequence of its      *)
(* characters; Spelling gives the characters of a mnemonic.                *)
(***************************************************************************)
MaxWords == 2

Spelling(name) ==
    CASE name = "ROP" -> <<"R", "O", "P">>
      [] name = "ROP(ft/hr)" -> <<"R", "O", "P", "(", "f", "t", "/", "h", "r", ")">>
      [] name = "HC1" -> <<"H", "C", "1">>
      [] name = "hc1" -> <<"h", "c", "1">>
      [] name = "HC10" -> <<"H", "C", "1", "0">>
      [] name = "TOTAL_GAS" -> <<"T", "O", "T", "A", "L", "_", "G", "A", "S">>
      [] name = "GR" -> <<"G", "R">>

\* str.upper() of one character, on the letters of the model.
UpperChar(c) ==
    CASE c = "f" -> "F" [] c = "t" -> "T" [] c = "h" -> "H" [] c = "r" -> "R"
      [] c = "c" -> "C" [] c = "o" -> "O" [] c = "p" -> "P" [] c = "e" -> "E"
      [] c = "n" -> "N" [] c = "d" -> "D" [] c = "a" -> "A" [] c = "w" -> "W"
      [] c = "b" -> "B" [] c = "u" -> "U" [] OTHER -> c
Upper(text) == [i \in DOMAIN text |-> UpperChar(text[i])]

\* [A-Z0-9]
IsUpperAlnum(c) ==
    c \in {"A", "B", "C", "D", "E", "F", "G", "H", "L", "N", "O", "P", "R", "S", "T", "U",
           "W", "0", "1"}

\* _normalize_token(text): re.sub(r"[^A-Z0-9]", "", text.upper())
NormalizeToken(text) == SelectSeq(Upper(text), IsUpperAlnum)

\* The positions where needle occurs in text.
Occurrences(text, needle) ==
    {i \in 1..(Len(text) - Len(needle) + 1) : SubSeq(text, i, i + Len(needle) - 1) = needle}
\* needle in text
Contains(text, needle) == needle = <<>> \/ Occurrences(text, needle) /= {}

\* sorted(names, key=len, reverse=True): stable.
RECURSIVE SortedByLen(_)
SortedByLen(names) ==
    IF names = <<>> THEN <<>>
    ELSE LET n == Len(names)
             rest == SortedByLen(SubSeq(names, 1, n - 1))
             k == Cardinality({i \in DOMAIN rest :
                     Len(Spelling(rest[i])) >= Len(Spelling(names[n]))})
         IN SubSeq(rest, 1, k) \o <<names[n]>> \o SubSeq(rest, k + 1, Len(rest))

\* The loop of _extract_mentioned_curves over the sorted candidates.
RECURSIVE MentionLoop(_, _, _)
MentionLoop(message, candidates, matches) ==
    IF candidates = <<>> THEN matches
    ELSE LET curve == Head(candidates)
             curve_upper == Upper(Spelling(curve))
             curve_normalized == NormalizeToken(Spelling(curve))
             hit == \/ Contains(Upper(message), curve_upper)
                    \/ (curve_normalized /= <<>>
                        /\ Contains(NormalizeToken(message), curve_normalized))
         IN MentionLoop(message, Tail(candidates),
                        IF hit /\ curve \notin Range(matches)
                        THEN Append(matches, curve) ELSE matches)

\* _extract_mentioned_curves(message, available_curve_names)
ExtractMentionedCurves(message, available_curve_names) ==
    IF message = <<>> THEN <<>>
    ELSE MentionLoop(message, SortedByLen(available_curve_names), <<>>)

\* Messages: up to MaxWords words with a space between them.
Words ==
    {Spelling("ROP(ft/hr)"), Spelling("ROP"), Spelling("hc1"), Spelling("HC10"),
     <<"T", "O", "T", "A", "L", "G", "A", "S">>, <<"t", "r", "e", "n", "d">>,
     <<"w", "h", "a", "t">>}
RECURSIVE JoinWords(_)
JoinWords(words) ==
    IF words = <<>> THEN <<>>
    ELSE IF Len(words) = 1 THEN words[1]
    ELSE words[1] \o <<" ">> \o JoinWords(Tail(words))
MentionMessages == {JoinWords(ws) : ws \in UNION {[1..n -> Words] : n \in 0..MaxWords}}
\* "what about ROP(ft/hr) trend"
RopMessage ==
    <<"w", "h", "a", "t", " ", "a", "b", "o", "u", "t", " ">> \o Spelling("ROP(ft/hr)")
    \o <<" ", "t", "r", "e", "n", "d">>
MentionCandidates ==
    {<<"ROP(ft/hr)", "ROP">>, <<"ROP", "ROP(ft/hr)">>, <<"HC1", "HC10", "GR">>,
     <<"TOTAL_GAS", "hc1", "HC1", "hc1">>, <<>>, <<"GR", "ROP", "GR">>}

\* _extract_mentioned_curves called by the chat route.
CallMentions ==
    /\ call.op = "none"
    /\ \E message \in MentionMessages \cup {RopMessage}, candidates \in MentionCandidates :
          /\ call' = [op |-> "mentions", message |-> message, candidates |-> candidates]
          /\ out' = [matches |-> ExtractMentionedCurves(message, candidates)]
    /\ UNCHANGED <<blobs, tableVars, nextWellId, sess, ingests, readVars, keys, client>>

\* Every occurrence of the name Y in the message lies inside an occurrence
\* of the name X.
OnlyInside(message, X, Y) ==
    \A j \in Occurrences(Upper(message), Upper(Spelling(Y))) :
        \E i \in Occurrences(Upper(message), Upper(Spelling(X))) :
            i <= j /\ j + Len(Spelling(Y)) <= i + Len(Spelling(X))

\* C13: when the message mentions a candidate X, and a shorter candidate Y
\* is a substring of X that occurs in the message only inside the mentions
\* of X, the result holds X and not Y; "what about ROP(ft/hr) trend" with
\* the candidates ROP(ft/hr) and ROP gives ROP(ft/hr) alone; the result has
\* no duplicates.
C13_LongestMatch ==
    call.op = "mentions" =>
        /\ NoDuplicates(out.matches)
        /\ \A X, Y \in Range(call.candidates) :
              (/\ Contains(Upper(call.message), Upper(Spelling(X)))
               /\ Len(Spelling(Y)) < Len(Spelling(X))
               /\ Contains(Upper(Spelling(X)), Upper(Spelling(Y)))
               /\ OnlyInside(call.message, X, Y)) =>
                  (X \in Range(out.matches) /\ Y \notin Range(out.matches))
        /\ (call.message = RopMessage /\ call.candidates = <<"ROP(ft/hr)", "ROP">>) =>
              out.matches = <<"ROP(ft/hr)">>

(***************************************************************************)
(* The focus curves of a chat request.                                     *)
(***************************************************************************)
MaxFocusCurves == 4

\* for curve in curves: if curve in scope and curve not in focus:
\* focus.append(curve); if len(focus) >= max_curves: stop.
RECURSIVE FocusLoop(_, _, _, _)
FocusLoop(curves, scope, focus, max_curves) ==
    IF curves = <<>> THEN focus
    ELSE LET next == IF Head(curves) \in scope /\ Head(curves) \notin Range(focus)
                     THEN Append(focus, Head(curves)) ELSE focus
         IN IF Len(next) >= max_curves THEN next
            ELSE FocusLoop(Tail(curves), scope, next, max_curves)

\* scored: (float(cmax) - float(cmin), curve) of the curves with valid
\* points and a defined min and max.
RECURSIVE Scored(_, _)
Scored(curves_in_scope, stats) ==
    IF curves_in_scope = <<>> THEN <<>>
    ELSE LET curve == Head(curves_in_scope)
             cmin == StatGet(stats, curve, "min")
             cmax == StatGet(stats, curve, "max")
         IN (IF NonNullCount(stats, curve) <= 0 THEN <<>>
             ELSE IF ~IsSome(cmin) \/ ~IsSome(cmax) THEN <<>>
             ELSE <<[score |-> Val(cmax) - Val(cmin), curve |-> curve]>>)
            \o Scored(Tail(curves_in_scope), stats)

RECURSIVE SortedByScoreAscending(_)
SortedByScoreAscending(scored) ==
    IF scored = <<>> THEN <<>>
    ELSE LET n == Len(scored)
             rest == SortedByScoreAscending(SubSeq(scored, 1, n - 1))
             k == Cardinality({i \in DOMAIN rest : rest[i].score <= scored[n].score})
         IN SubSeq(rest, 1, k) \o <<scored[n]>> \o SubSeq(rest, k + 1, Len(rest))
\* sorted(scored, key=lambda x: x[0], reverse=True): stable.
RECURSIVE SortedByScore(_)
SortedByScore(scored) ==
    IF scored = <<>> THEN <<>>
    ELSE LET n == Len(scored)
             rest == SortedByScore(SubSeq(scored, 1, n - 1))
             k == Cardinality({i \in DOMAIN rest : rest[i].score >= scored[n].score})
         IN SubSeq(rest, 1, k) \o <<scored[n]>> \o SubSeq(rest, k + 1, Len(rest))

\* _pick_focus_curves(mentioned_curves, curves_in_scope, stats, max_curves)
PickFocusCurves(mentioned_curves, curves_in_scope, stats, max_curves) ==
    LET mentioned == FocusLoop(mentioned_curves, Range(curves_in_scope), <<>>, max_curves)
        ranked == SortedByScore(Scored(curves_in_scope, stats))
        by_range == FocusLoop([i \in DOMAIN ranked |-> ranked[i].curve],
                              Range(curves_in_scope), mentioned, max_curves)
    IN IF mentioned_curves /= <<>> /\ Len(mentioned) >= max_curves THEN mentioned
       ELSE IF ranked /= <<>> /\ Len(by_range) >= max_curves THEN by_range
       ELSE FocusLoop(curves_in_scope, Range(curves_in_scope), by_range, max_curves)

FocusAnalyzed ==
    {<<>>, <<"GR">>, <<"HC1", "HC2", "HC3">>, <<"HC1", "HC2", "HC3", "HC4", "HC5">>,
     <<"HC2", "HC1", "HC2", "GR", "HC5">>}
FocusMentioned ==
    {<<>>, <<"HC3">>, <<"ROP", "HC2", "HC2", "HC1">>, <<"HC5", "HC4", "HC3", "HC2", "HC1">>}
\* Statistics as get_well_statistics makes them.
FocusStatistics ==
    {[c \in {k \in DOMAIN f : IsSome(f[k])} |-> Val(f[c])] :
        f \in [HC1 : {NoValue, Some(StatOf(0, 5, 2))},
               HC2 : {Some(StatEmpty), Some(StatOf(0, 5, 1)), Some(StatOf(1, 9, 3))},
               HC3 : {Some(StatEmpty), Some(StatOf(2, 7, 3))},
               HC4 : {NoValue, Some(StatOf(0, 9, 1))},
               HC5 : {Some(StatEmpty), Some(StatOf(0, 5, 4))},
               GR : {Some(StatOf(0, 1, 1))}]}

\* _pick_focus_curves called by the chat route, with the default cap.
CallFocus ==
    /\ call.op = "none"
    /\ \E mentioned \in FocusMentioned, analyzed \in FocusAnalyzed,
          stats \in FocusStatistics :
          /\ call' = [op |-> "focus", mentioned |-> mentioned, analyzed |-> analyzed,
                      stats |-> stats]
          /\ out' = [focus |-> PickFocusCurves(mentioned, analyzed, stats, MaxFocusCurves)]
    /\ UNCHANGED <<blobs, tableVars, nextWellId, sess, ingests, readVars, keys, client>>

NextContext ==
    \/ CallSelect
    \/ CallMentions
    \/ CallFocus
    \/ ReturnCall

SpecContext == Init /\ [][NextContext]_vars

\* The priority of the claim: x comes before y.
FocusGroup(x) ==
    IF x \in Range(call.mentioned) THEN 1
    ELSE IF NonNullCount(call.stats, x) > 0 THEN 2 ELSE 3
FocusRange(x) == Val(call.stats[x].max) - Val(call.stats[x].min)
FocusBefore(x, y) ==
    \/ FocusGroup(x) < FocusGroup(y)
    \/ /\ FocusGroup(x) = 1 /\ FocusGroup(y) = 1
       /\ FirstIndex(call.mentioned, x) < FirstIndex(call.mentioned, y)
    \/ /\ FocusGroup(x) = 2 /\ FocusGroup(y) = 2
       /\ \/ FocusRange(x) > FocusRange(y)
          \/ /\ FocusRange(x) = FocusRange(y)
             /\ FirstIndex(call.analyzed, x) < FirstIndex(call.analyzed, y)
    \/ /\ FocusGroup(x) = 3 /\ FocusGroup(y) = 3
       /\ FirstIndex(call.analyzed, x) < FirstIndex(call.analyzed, y)

\* C14: the focus curves are the mentioned analyzed curves in mention order,
\* then the analyzed curves with valid values by descending max - min (ties
\* to the curve that is earlier in the analyzed set), then the other
\* analyzed curves in their order, cut to 4: no duplicates, analyzed curves
\* only, exactly min(4, number of distinct analyzed curves) entries.
C14_FocusCurves ==
    call.op = "focus" =>
        /\ NoDuplicates(out.focus)
        /\ Range(out.focus) \subseteq Range(call.analyzed)
        /\ Len(out.focus) = Min2(MaxFocusCurves, Cardinality(Range(call.analyzed)))
        /\ \A i, j \in DOMAIN out.focus : i < j => FocusBefore(out.focus[i], out.focus[j])
        /\ \A x \in Range(call.analyzed) \ Range(out.focus) :
              \A i \in DOMAIN out.focus : FocusBefore(out.focus[i], x)

\* A result cut to 4 that holds a mentioned curve, two curves of equal
\* range and leaves an analyzed curve out.
C14_Witness ==
    /\ call.op = "focus"
    /\ Len(out.focus) = MaxFocusCurves
    /\ Cardinality(Range(call.analyzed)) > MaxFocusCurves
    /\ FocusGroup(out.focus[1]) = 1
    /\ \E i \in 1..3 :
          /\ FocusGroup(out.focus[i]) = 2 /\ FocusGroup(out.focus[i + 1]) = 2
          /\ FocusRange(out.focus[i]) = FocusRange(out.focus[i + 1])

(***************************************************************************)
(* Analytics of the value sequences: trend, correlation, percentile.       *)
(***************************************************************************)
FracSub(a, b) == Frac(a.n * b.d - b.n * a.d, a.d * b.d)
FracAbs(a) == [n |-> Abs(a.n), d |-> a.d]
FracMax(a, b) == IF FracLe(a, b) THEN b ELSE a

\* delta / max(scale, 1e-9) >= p / q, and <= p / q
RelativeAtLeast(delta, scale, p, q) ==
    IF scale.n > 0 THEN FracLe(FracScale(scale, p, q), delta)
    ELSE IF p > 0 THEN delta.n > 0 ELSE delta.n >= 0
RelativeAtMost(delta, scale, p, q) ==
    IF scale.n > 0 THEN FracLe(delta, FracScale(scale, p, q))
    ELSE IF p < 0 THEN delta.n < 0 ELSE delta.n <= 0

\* values[:window], values[-window:]
FirstValues(values, window) == SubSeq(values, 1, Min2(window, Len(values)))
LastValues(values, window) ==
    SubSeq(values, Max2(1, Len(values) - window + 1), Len(values))

\* _trend_label of services/ai_service.py
TrendLabel(values) ==
    LET window == Max2(3, Len(values) \div 5)
        head == Mean(FirstValues(values, window))
        tail == Mean(LastValues(values, window))
        delta == FracSub(Val(tail), Val(head))
        scale == FracMax(FracAbs(Val(head)), FracAbs(Val(tail)))
    IN IF Len(values) < 12 THEN "insufficient points"
       ELSE IF ~IsSome(head) \/ ~IsSome(tail) THEN "insufficient points"
       ELSE IF RelativeAtLeast(delta, scale, 8, 100) THEN "increasing with depth"
       ELSE IF RelativeAtMost(delta, scale, 0 - 8, 100) THEN "decreasing with depth"
       ELSE "mostly stable"

\* _trend_label of routers/chat.py
ChatTrendLabel(values) ==
    LET window == Max2(3, Len(values) \div 5)
        first_mean == Mean(FirstValues(values, window))
        last_mean == Mean(LastValues(values, window))
        delta == FracSub(Val(last_mean), Val(first_mean))
        scale == FracMax(FracAbs(Val(first_mean)), FracAbs(Val(last_mean)))
    IN IF Len(values) < 12 THEN "insufficient points for trend"
       ELSE IF ~IsSome(first_mean) \/ ~IsSome(last_mean) THEN "insufficient points for trend"
       ELSE IF RelativeAtLeast(delta, scale, 8, 100) THEN "increasing with depth"
       ELSE IF RelativeAtMost(delta, scale, 0 - 8, 100) THEN "decreasing with depth"
       ELSE "mostly stable"

\* Value sequences: constants, ramps and steps of several lengths.
TrendLengths == {5, 11, 12, 13, 20}
TrendSequences ==
    {[i \in 1..n |-> c] : n \in TrendLengths, c \in {0 - 3, 0, 7}}
    \cup {[i \in 1..n |-> a + d * i] :
             n \in TrendLengths, a \in {0, 1, 50, 1000, 0 - 1019}, d \in {1, 2, 0 - 1}}
    \cup {[i \in 1..n |-> IF 2 * i <= n THEN x ELSE y] :
             n \in TrendLengths, x \in {0, 25, 27}, y \in {0, 23, 25}}

\* _trend_label called on the values of a curve, on the interpretation path.
CallTrendLabel ==
    /\ call.op = "none"
    /\ \E values \in TrendSequences :
          /\ call' = [op |-> "trend", path |-> "interpretation", values |-> values]
          /\ out' = [label |-> TrendLabel(values)]
    /\ UNCHANGED <<blobs, tableVars, nextWellId, sess, ingests, readVars, keys, client>>

\* _trend_label called on the values of a curve, on the chat path.
CallChatTrendLabel ==
    /\ call.op = "none"
    /\ \E values \in TrendSequences :
          /\ call' = [op |-> "trend", path |-> "chat", values |-> values]
          /\ out' = [label |-> ChatTrendLabel(values)]
    /\ UNCHANGED <<blobs, tableVars, nextWellId, sess, ingests, readVars, keys, client>>

StrictlyIncreasing(values) == \A i \in 1..(Len(values) - 1) : values[i] < values[i + 1]
IsConstant(values) == \A i, j \in DOMAIN values : values[i] = values[j]

\* C15: on both paths a strictly increasing sequence of 20 values is
\* "increasing with depth", a constant sequence of at least 12 values is
\* "mostly stable" and a sequence of 5 values is "insufficient points".
C15_TrendExamples ==
    call.op = "trend" =>
        /\ (Len(call.values) = 20 /\ StrictlyIncreasing(call.values)) =>
              out.label = "increasing with depth"
        /\ (Len(call.values) >= 12 /\ IsConstant(call.values)) => out.label = "mostly stable"
        /\ Len(call.values) = 5 => out.label = "insufficient points"

\* The rule of the claim: w = max(3, n div 5), r = (tail - head) / max(|head|,
\* |tail|, 1e-9) on the sums of the first and last w values.
TrendRule(values) ==
    LET w == Max2(3, Len(values) \div 5)
        head == SeqSum(SubSeq(values, 1, w))
        tail == SeqSum(SubSeq(values, Len(values) - w + 1, Len(values)))
        scale == Max2(Abs(head), Abs(tail))
    IN IF Len(values) < 12 THEN "insufficient points"
       ELSE IF scale > 0 /\ 100 * (tail - head) >= 8 * scale THEN "increasing with depth"
       ELSE IF scale > 0 /\ 100 * (tail - head) <= 0 - 8 * scale THEN "decreasing with depth"
       ELSE "mostly stable"

\* C19: both implementations return "insufficient points" under 12 values
\* and otherwise the label of the relative change of the tail mean against
\* the head mean with the thresholds 0.08 and -0.08; they return the same
\* label for every input.
C19_TrendRule ==
    call.op = "trend" =>
        /\ out.label = TrendRule(call.values)
        /\ TrendLabel(call.values) = ChatTrendLabel(call.values)

(***************************************************************************)
(* Correlation.  Python floats round every sum, product and quotient to a  *)
(* fixed number of significant bits; the same is done here with            *)
(* MantissaBits bits on numbers counted in units of 2^-FracBits, the unit  *)
(* being the smallest step (as the subnormal numbers are).                 *)
(***************************************************************************)
MantissaBits == 3
FracBits == 4
MaxPearsonLen == 4

RECURSIVE Pow2(_)
Pow2(k) == IF k <= 0 THEN 1 ELSE 2 * Pow2(k - 1)
FloatUnit == Pow2(FracBits)

\* The largest k with 2^k <= x, for x >= 1.
RECURSIVE Log2Floor(_)
Log2Floor(x) == IF x < 2 THEN 0 ELSE 1 + Log2Floor(x \div 2)

\* n / d (n >= 0, d > 0) rounded to the nearest integer, halves to even.
RoundHalfEven(n, d) ==
    LET q == n \div d
        r == n % d
    IN IF 2 * r < d THEN q
       ELSE IF 2 * r > d THEN q + 1
       ELSE IF q % 2 = 0 THEN q ELSE q + 1

\* The float nearest to n / d units, for n >= 0 and d > 0.
FloatRoundPositive(n, d) ==
    LET k == Log2Floor(Max2(1, n \div d))
        step == Pow2(k - MantissaBits + 1)
    IN RoundHalfEven(n, d * step) * step
\* The float nearest to n / d units (d /= 0): rounding is symmetric.
FloatRound(n, d) ==
    IF (n >= 0) = (d > 0) THEN FloatRoundPositive(Abs(n), Abs(d))
    ELSE 0 - FloatRoundPositive(Abs(n), Abs(d))

FloatAdd(x, y) == FloatRound(x + y, 1)
FloatSub(x, y) == FloatRound(x - y, 1)
FloatMul(x, y) == FloatRound(x * y, FloatUnit)
\* x / n for a count n
FloatDivCount(x, n) == FloatRound(x, n)

\* sum(values): the additions from left to right, from 0.
RECURSIVE FloatSumFrom(_, _)
FloatSumFrom(acc, values) ==
    IF values = <<>> THEN acc ELSE FloatSumFrom(FloatAdd(acc, Head(values)), Tail(values))
FloatSum(values) == FloatSumFrom(0, values)

\* _mean on floats
FloatMean(values) ==
    IF values = <<>> THEN NoValue ELSE Some(FloatDivCount(FloatSum(values), Len(values)))

\* The correlation of both implementations after the truncation: num and
\* den_a * den_b; sqrt(x) is 0 exactly when x is.
PearsonCore(a, b) ==
    LET mean_a == FloatMean(a)
        mean_b == FloatMean(b)
        dev_a == [i \in DOMAIN a |-> FloatSub(a[i], Val(mean_a))]
        dev_b == [i \in DOMAIN b |-> FloatSub(b[i], Val(mean_b))]
        numerator == FloatSum([i \in DOMAIN a |-> FloatMul(dev_a[i], dev_b[i])])
        den_a == FloatSum([i \in DOMAIN a |-> FloatMul(dev_a[i], dev_a[i])])
        den_b == FloatSum([i \in DOMAIN b |-> FloatMul(dev_b[i], dev_b[i])])
        product == FloatMul(den_a, den_b)
    IN IF ~IsSome(mean_a) \/ ~IsSome(mean_b) THEN NoValue
       ELSE IF product = 0 THEN NoValue
       ELSE Some([numerator |-> numerator, denominator_squared |-> product])

\* _pearson(values_a, values_b) of services/ai_service.py
Pearson(values_a, values_b) ==
    LET n == Min2(Len(values_a), Len(values_b))
    IN IF n < 3 THEN NoValue ELSE PearsonCore(Take(values_a, n), Take(values_b, n))

\* _pearson_correlation(values_a, values_b) of routers/chat.py
PearsonCorrelation(values_a, values_b) ==
    LET n == Min2(Len(values_a), Len(values_b))
    IN IF n < 3 THEN NoValue ELSE PearsonCore(Take(values_a, n), Take(values_b, n))

\* Sequences of small whole numbers, in units.
PearsonSequences ==
    UNION {[1..n -> {FloatUnit, 3 * FloatUnit, 5 * FloatUnit}] : n \in 0..MaxPearsonLen}

\* _pearson called on the values of two curves (interpretation path).
CallPearson ==
    /\ call.op = "none"
    /\ \E values_a \in PearsonSequences, values_b \in PearsonSequences :
          /\ call' = [op |-> "pearson", path |-> "interpretation",
                      values_a |-> values_a, values_b |-> values_b]
          /\ out' = [corr |-> Pearson(values_a, values_b)]
    /\ UNCHANGED <<blobs, tableVars, nextWellId, sess, ingests, readVars, keys, client>>

\* _pearson_correlation called on the values of two curves (chat path).
CallPearsonCorrelation ==
    /\ call.op = "none"
    /\ \E values_a \in PearsonSequences, values_b \in PearsonSequences :
          /\ call' = [op |-> "pearson", path |-> "chat",
                      values_a |-> values_a, values_b |-> values_b]
          /\ out' = [corr |-> PearsonCorrelation(values_a, values_b)]
    /\ UNCHANGED <<blobs, tableVars, nextWellId, sess, ingests, readVars, keys, client>>

PairedLen == Min2(Len(call.values_a), Len(call.values_b))

\* C16: the correlation of A and B equals the correlation of B and A, and
\* it is undefined when fewer than 3 paired points remain or one of the
\* truncated sequences is constant.
C16_Pearson ==
    call.op = "pearson" =>
        /\ out.corr = Pearson(call.values_b, call.values_a)
        /\ out.corr = PearsonCorrelation(call.values_b, call.values_a)
        /\ (\/ PairedLen < 3
            \/ IsConstant(Take(call.values_a, PairedLen))
            \/ IsConstant(Take(call.values_b, PairedLen))) => out.corr = NoValue

(***************************************************************************)
(* Percentile.                                                             *)
(***************************************************************************)
MaxPercentileLen == 4

\* The inline p90 of _format_query_analytics on the values of a curve.
ChatPercentile90(values) ==
    LET sorted_values == SortAsc(values)
        n_sv == Len(sorted_values)
        p90_lo == (9 * (n_sv - 1)) \div 10
        p90_hi == Min2(p90_lo + 1, n_sv - 1)
        p90_frac == (9 * (n_sv - 1)) % 10
    IN Some(Interpolate(sorted_values[p90_lo + 1], sorted_values[p90_hi + 1], p90_frac, 10))

PercentileSequences == UNION {[1..n -> {0 - 3, 0, 2, 5}] : n \in 0..MaxPercentileLen}
\* q as a quotient
PercentileQs == {<<0, 1>>, <<1, 3>>, <<1, 2>>, <<9, 10>>, <<1, 1>>}

\* _percentile(values, q)
CallPercentile ==
    /\ call.op = "none"
    /\ \E values \in PercentileSequences, q \in PercentileQs :
          /\ call' = [op |-> "percentile", path |-> "interpretation",
                      values |-> values, q |-> q]
          /\ out' = [p |-> Percentile(values, q[1], q[2])]
    /\ UNCHANGED <<blobs, tableVars, nextWellId, sess, ingests, readVars, keys, client>>

\* The inline p90 of the chat path, computed for a curve with 3 pairs or more.
CallChatPercentile ==
    /\ call.op = "none"
    /\ \E values \in PercentileSequences :
          /\ Len(values) >= 3
          /\ call' = [op |-> "percentile", path |-> "chat", values |-> values,
                      q |-> <<9, 10>>]
          /\ out' = [p |-> ChatPercentile90(values)]
    /\ UNCHANGED <<blobs, tableVars, nextWellId, sess, ingests, readVars, keys, client>>

NextAnalytics ==
    \/ CallTrendLabel
    \/ CallChatTrendLabel
    \/ CallPearson
    \/ CallPearsonCorrelation
    \/ CallPercentile
    \/ CallChatPercentile
    \/ ReturnCall

SpecAnalytics == Init /\ [][NextAnalytics]_vars

\* The k-th smallest value of a sequence, counted with repetitions.
KthSmallest(values, k) ==
    CHOOSE v \in Range(values) :
        /\ Cardinality({i \in DOMAIN values : values[i] < v}) < k
        /\ k <= Cardinality({i \in DOMAIN values : values[i] <= v})

\* The linear interpolation at position q * (n - 1) of the sorted values.
Interpolated(values, qn, qd) ==
    LET n == Len(values)
        lo == (qn * (n - 1)) \div qd
        below == KthSmallest(values, lo + 1)
        above == KthSmallest(values, Min2(lo + 2, n))
    IN Frac(below * qd + ((qn * (n - 1)) % qd) * (above - below), qd)

Shuffles(values) ==
    {[i \in DOMAIN values |-> values[f[i]]] :
        f \in {g \in [DOMAIN values -> DOMAIN values] :
                  \A i, j \in DOMAIN values : i /= j => g[i] /= g[j]}}

\* C20: the percentile is undefined for the empty sequence, the single value
\* for one value whatever q is, and otherwise the linear interpolation at
\* position q * (n - 1) of the sorted values; every reordering of the values
\* gives the same result, and the inline p90 of the chat path equals
\* _percentile(values, 0.9).
C20_Percentile ==
    call.op = "percentile" =>
        /\ call.values = <<>> => out.p = NoValue
        /\ Len(call.values) = 1 => out.p = Some(Frac(call.values[1], 1))
        /\ Len(call.values) > 1 =>
              out.p = Some(Interpolated(call.values, call.q[1], call.q[2]))
        /\ \A shuffled \in Shuffles(call.values) :
              Percentile(shuffled, call.q[1], call.q[2]) = out.p
        /\ call.path = "chat" =>
              /\ out.p = Percentile(call.values, 9, 10)
              /\ \A shuffled \in Shuffles(call.values) : ChatPercentile90(shuffled) = out.p

\* An unsorted sequence of four values whose 0.9 percentile lies strictly
\* between its two largest values.
C20_Witness ==
    /\ call.op = "percentile"
    /\ Len(call.values) = 4
    /\ call.q = <<9, 10>>
    /\ call.values[1] > call.values[2]
    /\ out.p /= Some(Frac(KthSmallest(call.values, 4), 1))
    /\ out.p /= Some(Frac(KthSmallest(call.values, 3), 1))

(***************************************************************************)
(* Rejected uploads.                                                       *)
(***************************************************************************)
\* The request of a session carries bytes that parse_las_file cannot parse.
Unparseable(s) == sess[s].pc /= "idle" /\ ~IsSome(sess[s].las)

\* C17: an upload whose bytes cannot be parsed is rejected and has no
\* effect: it never reaches the S3 upload or store_parsed_las, and the
\* bucket and the three tables are what they were before the request.
C17_RejectedUpload ==
    \A s \in Sessions :
       Unparseable(s) =>
          /\ sess[s].pc = "rejected"
          /\ blobs = Val(sess[s].blobs_before)
          /\ Store = Val(sess[s].before)
          /\ ~IsSome(sess[s].existing) /\ ~IsSome(sess[s].deleted)
          /\ ~IsSome(sess[s].well_id)

\* C17 witness: an upload is rejected while the store holds a well with
\* curves and samples and the bucket holds an object.
C17_Witness ==
    /\ Unparseable(1)
    /\ sess[1].pc = "rejected"
    /\ wells /= {} /\ curvesT /= {} /\ dataT /= {}
    /\ blobs /= {}

(***************************************************************************)
(* The depth window of an analysis request (routers/interpretation.py,     *)
(* routers/chat.py).  An outcome Returned(w) is a request that went on to  *)
(* get_well_statistics and get_well_data with the window w.                *)
(***************************************************************************)
MaxDepth == 7

\* The first four lines of _normalize_depth_range: a missing bound is the
\* well's, and each bound is clamped into the well's extent.
ClampToWell(request_min, request_max, well) ==
    LET depth_min == IF IsSome(request_min) THEN Val(request_min) ELSE well.start_depth
        depth_max == IF IsSome(request_max) THEN Val(request_max) ELSE well.stop_depth
    IN [depth_min |-> Max2(well.start_depth, Min2(depth_min, well.stop_depth)),
        depth_max |-> Max2(well.start_depth, Min2(depth_max, well.stop_depth))]

\* _normalize_depth_range(request_min, request_max, well)
NormalizeDepthRange(request_min, request_max, well) ==
    LET clamped == ClampToWell(request_min, request_max, well)
    IN IF clamped.depth_min >= clamped.depth_max
       THEN [depth_min |-> well.start_depth, depth_max |-> well.stop_depth]
       ELSE clamped

\* interpret(well_id, request, db) up to the statistics: the checks of the
\* well, of the curves and of the depth range, in that order.
InterpretRoute(well, invalid, depth_min, depth_max) ==
    IF ~IsSome(well) THEN Raised("Well not found.")
    ELSE IF invalid /= {} THEN Raised("Invalid curves")
    ELSE IF depth_min >= depth_max THEN Raised("depth_min must be less than depth_max.")
    ELSE Returned([depth_min |-> depth_min, depth_max |-> depth_max, statistics |-> TRUE])

\* chat(request, db) up to the statistics, which are computed when a curve
\* is in scope.
ChatRoute(well, curves_in_scope, request_min, request_max) ==
    IF ~IsSome(well) THEN Raised("Well not found.")
    ELSE LET window == NormalizeDepthRange(request_min, request_max, Val(well))
         IN Returned([depth_min |-> window.depth_min, depth_max |-> window.depth_max,
                      statistics |-> curves_in_scope /= <<>>])

\* Wells by their STRT and STOP header values: an ascending log, a log of
\* one depth, a descending log; and no well of the requested id.
RouteWells ==
    {NoValue, Some([start_depth |-> 1, stop_depth |-> 6]),
     Some([start_depth |-> 3, stop_depth |-> 3]),
     Some([start_depth |-> 6, stop_depth |-> 1])}
RouteDepths == 0..MaxDepth
RouteScopes == {<<>>, <<"HC1">>}
RouteInvalid == {{}, {"GR"}}

CallInterpretRoute ==
    /\ call.op = "none"
    /\ \E well \in RouteWells, invalid \in RouteInvalid,
          depth_min \in RouteDepths, depth_max \in RouteDepths :
          /\ call' = [op |-> "route", path |-> "interpretation", well |-> well,
                      invalid |-> invalid, curves_in_scope |-> <<"HC1">>,
                      depth_min |-> Some(depth_min), depth_max |-> Some(depth_max)]
          /\ out' = InterpretRoute(well, invalid, depth_min, depth_max)
    /\ UNCHANGED <<blobs, tableVars, nextWellId, sess, ingests, readVars, keys, client>>

CallChatRoute ==
    /\ call.op = "none"
    /\ \E well \in RouteWells, curves_in_scope \in RouteScopes,
          request_min \in {NoValue} \cup {Some(x) : x \in RouteDepths},
          request_max \in {NoValue} \cup {Some(x) : x \in RouteDepths} :
          /\ call' = [op |-> "route", path |-> "chat", well |-> well,
                      invalid |-> {}, curves_in_scope |-> curves_in_scope,
                      depth_min |-> request_min, depth_max |-> request_max]
          /\ out' = ChatRoute(well, curves_in_scope, request_min, request_max)
    /\ UNCHANGED <<blobs, tableVars, nextWellId, sess, ingests, readVars, keys, client>>

NextRoutes ==
    \/ CallInterpretRoute
    \/ CallChatRoute
    \/ ReturnCall

SpecRoutes == Init /\ [][NextRoutes]_vars

\* The window of the last request after normalization against the well:
\* the request's own bounds on the interpretation path, the clamped bounds
\* on the chat path.
RequestWindow ==
    IF call.path = "chat"
    THEN ClampToWell(call.depth_min, call.depth_max, Val(call.well))
    ELSE [depth_min |-> Val(call.depth_min), depth_max |-> Val(call.depth_max)]

\* C18: on both paths, a request for an existing well and known curves
\* whose window has depth_min >= depth_max after normalization ends in the
\* invalid-range error, and no statistics are computed for it.
C18_InvalidRange ==
    (/\ call.op = "route"
     /\ IsSome(call.well)
     /\ call.invalid = {}
     /\ RequestWindow.depth_min >= RequestWindow.depth_max)
       => out = Raised("depth_min must be less than depth_max.")

(***************************************************************************)
(* Row sampling and high-response zones: _curve_pairs and high_interval of *)
(* the interpreter, the high zone of _build_interpretation_diagnostics and *)
(* the one of _format_query_analytics (chat).                              *)
(***************************************************************************)
ChatMaxRows == 3500
ChatMinPairs == 3
DiagnosticsMinPairs == 3

\* sampled_rows = rows[::stride] of _format_query_analytics
ChatSampledRows(rows, max_rows) == Strided(rows, Max2(1, Len(rows) \div max_rows))

\* The result of a high-zone computation: the number of pairs it was made
\* of and the zone, none when the curve is skipped or its zone is "n/a".
ZoneOf(pairs, min_pairs, threshold) ==
    LET depths == {pairs[i].d : i \in {j \in DOMAIN pairs : Clears(pairs[j].v, Val(threshold))}}
    IN [pairs |-> Len(pairs),
        zone |-> IF Len(pairs) < min_pairs \/ ~IsSome(threshold) \/ depths = {}
                 THEN NoValue
                 ELSE Some([top |-> Round1(SetMin(depths)), bottom |-> Round1(SetMax(depths))])]

\* The high zone of one curve in _build_interpretation_diagnostics.
DiagnosticsHighZone(sample_data, curve) ==
    LET pairs == CurvePairs(sample_data, curve, InterpMaxRows)
        values == [i \in DOMAIN pairs |-> pairs[i].v]
    IN ZoneOf(pairs, DiagnosticsMinPairs, Percentile(values, 9, 10))

\* The high-response zone of one focus curve in _format_query_analytics.
ChatHighZone(rows, curve) ==
    LET pairs == PairsOf(ChatSampledRows(rows, ChatMaxRows), curve)
        values == [i \in DOMAIN pairs |-> pairs[i].v]
    IN ZoneOf(pairs, ChatMinPairs,
              IF Len(pairs) < ChatMinPairs THEN NoValue ELSE ChatPercentile90(values))

\* high_interval(curve_name) of _fallback_interpretation.
InterpreterHighZone(sample_data, curve_name) ==
    LET interval == HighInterval(sample_data, curve_name, InterpMaxRows, InterpMinPairs)
    IN [pairs |-> Len(CurvePairs(sample_data, curve_name, InterpMaxRows)),
        zone |-> IF IsSome(interval)
                 THEN Some([top |-> Val(interval).top, bottom |-> Val(interval).bottom])
                 ELSE NoValue]

\* Sample rows of one curve: every short sequence of cells (absent, a low
\* value, a value, a high value) at depths 1000, 2000, ..., and longer
\* ones: a ramp, a constant, a single peak, a cell lost in every third row,
\* rows in descending depth with every third depth lost, and the two ends
\* of the float range.
ShortLen == 4
ZoneCells == {NoValue, Some(0 - FloatMax), Some(2), Some(FloatMax)}
ZoneRow(depth, cell) == ("depth" :> depth) @@ ("HC1" :> cell)
ZonePattern(pattern, i, n) ==
    IF pattern = "ramp" THEN ZoneRow(Some(1000 * i), Some(i))
    ELSE IF pattern = "flat" THEN ZoneRow(Some(1000 * i), Some(2))
    ELSE IF pattern = "peak" THEN ZoneRow(Some(1000 * i), Some(IF i = 2 THEN 9 ELSE 1))
    ELSE IF pattern = "holes"
    THEN ZoneRow(Some(1000 * i), IF i % 3 = 0 THEN NoValue ELSE Some(i % 4))
    ELSE IF pattern = "descending"
    THEN ZoneRow(IF i % 3 = 1 THEN NoValue ELSE Some(1000 * (n - i) + 450), Some(i % 5))
    ELSE ZoneRow(Some(1000 * i), Some(IF i = n THEN FloatMax ELSE 0 - FloatMax))
ZonePatterns == {"ramp", "flat", "peak", "holes", "descending", "ends"}
ZoneSamples ==
    {[i \in DOMAIN cells |-> ZoneRow(Some(1000 * i), cells[i])] :
        cells \in UNION {[1..m -> ZoneCells] : m \in 0..ShortLen}}
    \cup {[i \in 1..n |-> ZonePattern(pattern, i, n)] :
            n \in (ShortLen + 1)..MaxSampleRows, pattern \in ZonePatterns}

CallInterpreterZone ==
    /\ call.op = "none"
    /\ \E sample_data \in ZoneSamples :
          /\ call' = [op |-> "zone", path |-> "interpreter", rows |-> sample_data]
          /\ out' = InterpreterHighZone(sample_data, "HC1")
    /\ UNCHANGED <<blobs, tableVars, nextWellId, sess, ingests, readVars, keys, client>>

CallDiagnosticsZone ==
    /\ call.op = "none"
    /\ \E sample_data \in ZoneSamples :
          /\ call' = [op |-> "zone", path |-> "diagnostics", rows |-> sample_data]
          /\ out' = DiagnosticsHighZone(sample_data, "HC1")
    /\ UNCHANGED <<blobs, tableVars, nextWellId, sess, ingests, readVars, keys, client>>

CallChatZone ==
    /\ call.op = "none"
    /\ \E rows \in ZoneSamples :
          /\ rows /= <<>>
          /\ call' = [op |-> "zone", path |-> "chat", rows |-> rows]
          /\ out' = ChatHighZone(rows, "HC1")
    /\ UNCHANGED <<blobs, tableVars, nextWellId, sess, ingests, readVars, keys, client>>

\* Row caps of the sampling, scaled down, and the rows sampled: n rows
\* with both parts present, the i-th at depth i.
StrideCaps == {2, 3, 4}
StrideRows(n) == [i \in 1..n |-> ZoneRow(Some(i), Some(i))]

\* _curve_pairs(sample_data, curve, max_rows): the depths of its pairs.
CallCurvePairs ==
    /\ call.op = "none"
    /\ \E n \in 0..MaxSampleRows, max_rows \in StrideCaps :
          /\ call' = [op |-> "sample", path |-> "interpreter", n |-> n, cap |-> max_rows]
          /\ out' = [analysed |->
                        LET pairs == CurvePairs(StrideRows(n), "HC1", max_rows)
                        IN [i \in DOMAIN pairs |-> pairs[i].d]]
    /\ UNCHANGED <<blobs, tableVars, nextWellId, sess, ingests, readVars, keys, client>>

\* sampled_rows of _format_query_analytics: their depths.
CallChatSampledRows ==
    /\ call.op = "none"
    /\ \E n \in 1..MaxSampleRows, max_rows \in StrideCaps :
          /\ call' = [op |-> "sample", path |-> "chat", n |-> n, cap |-> max_rows]
          /\ out' = [analysed |->
                        LET sampled_rows == ChatSampledRows(StrideRows(n), max_rows)
                        IN [i \in DOMAIN sampled_rows |-> Val(sampled_rows[i]["depth"])]]
    /\ UNCHANGED <<blobs, tableVars, nextWellId, sess, ingests, readVars, keys, client>>

NextZones ==
    \/ CallInterpreterZone
    \/ CallDiagnosticsZone
    \/ CallChatZone
    \/ CallCurvePairs
    \/ CallChatSampledRows
    \/ ReturnCall

SpecZones == Init /\ [][NextZones]_vars

\* The (depth, value) pairs of the rows of the last call with both parts
\* present, and the depths whose value is >= the 0.9 percentile of the
\* values.
PresentPairs ==
    LET present == {i \in DOMAIN call.rows :
                       /\ IsSome(DictGet(call.rows[i], "depth"))
                       /\ IsSome(DictGet(call.rows[i], "HC1"))}
    IN {[d |-> Val(call.rows[i]["depth"]), v |-> Val(call.rows[i]["HC1"]), i |-> i] : i \in present}
PresentValues ==
    LET idx == SortAsc([k \in 1..Cardinality(PresentPairs) |->
                          CHOOSE i \in {q.i : q \in PresentPairs} :
                             Cardinality({q \in PresentPairs : q.i < i}) = k - 1])
    IN [k \in DOMAIN idx |-> Val(call.rows[idx[k]]["HC1"])]
HighDepths ==
    {q.d : q \in {x \in PresentPairs : Clears(x.v, Val(Percentile(PresentValues, 9, 10)))}}

\* The pair minimum the claim gives each path.
ClaimedMinPairs == IF call.path = "chat" THEN 3 ELSE 8

\* C21: the high-response zone of a curve is the interval from the least
\* to the greatest depth whose value is >= the 0.9 percentile of the pairs
\* with both parts present; it is undefined below 3 pairs on the chat path
\* and below 8 pairs in every computation of the interpretation path, and
\* when no depth clears the threshold.
C21_HighResponseZone ==
    call.op = "zone" =>
        /\ out.pairs = Cardinality(PresentPairs)
        /\ (out.pairs < ClaimedMinPairs \/ HighDepths = {}) => out.zone = NoValue
        /\ (out.pairs >= ClaimedMinPairs /\ HighDepths /= {}) =>
              out.zone = Some([top |-> Round1(SetMin(HighDepths)),
                               bottom |-> Round1(SetMax(HighDepths))])

\* ceil(n / cap)
CeilDiv(n, cap) == (n + cap - 1) \div cap

\* C22: when the n rows exceed the cap, the rows analysed are every s-th
\* row from the first, in order, with s = ceil(n / cap), and they are never
\* more than the cap; when n <= cap every row is analysed.
C22_RowSampling ==
    call.op = "sample" =>
        LET s == IF call.n > call.cap THEN CeilDiv(call.n, call.cap) ELSE 1
        IN /\ Len(out.analysed) <= call.cap
           /\ out.analysed = [i \in 1..CeilDiv(call.n, s) |-> (i - 1) * s + 1]

\* The last call computed a high-response interval on the chat path or in
\* the interpreter, for a curve with the pairs its path requires.
EnoughPairs ==
    /\ call.op = "zone"
    /\ call.path \in {"chat", "interpreter"}
    /\ out.pairs >= (IF call.path = "chat" THEN ChatMinPairs ELSE InterpMinPairs)

\* The interval is defined, it holds the depth of every pair of the
\* greatest value, and its top is not below its bottom.
ZoneHoldsMaximum ==
    /\ IsSome(out.zone)
    /\ Val(out.zone).top <= Val(out.zone).bottom
    /\ \A q \in PresentPairs :
          (\A x \in PresentPairs : x.v <= q.v) =>
             /\ Val(out.zone).top <= Round1(q.d)
             /\ Round1(q.d) <= Val(out.zone).bottom

\* The greatest difference of two values of the curve is a float.
SpreadInRange == \A q, x \in PresentPairs : q.v - x.v <= FloatMax

Interpreted ==
    /\ call.op = "fallback"
    /\ out.status = "returned"
    /\ ValidCurves(call.curves, call.statistics) /= <<>>

\* The hydrocarbon candidates of the last call and their means.
Candidates == Range(RankedHydro(ValidCurves(call.curves, call.statistics), call.statistics))
CandidateMean(c) == StatMean(call.statistics, c)

\* The curves of the entries of gas_shows, in order.
ShowCurves == [i \in DOMAIN out.value.gas_shows |-> out.value.gas_shows[i].geological_context]

\* C23: the primary curve is the hydrocarbon candidate of the highest
\* mean, the secondary the next one (the primary itself when there is one
\* candidate); gas_shows has one entry for each of the two that has a
\* high-response interval, "High" for the primary and "Med" for the
\* secondary, never two entries for one curve and never more than two.
C23_GasShows ==
    Interpreted =>
        LET primary == out.value.summary.primary
            secondary == out.value.summary.secondary
            shows == out.value.gas_shows
        IN /\ primary \in Candidates
           /\ \A c \in Candidates : CandidateMean(primary) >= CandidateMean(c)
           /\ secondary \in Candidates
           /\ Cardinality(Candidates) = 1 => secondary = primary
           /\ Cardinality(Candidates) > 1 =>
                 /\ secondary /= primary
                 /\ \A c \in Candidates \ {primary} :
                       CandidateMean(secondary) >= CandidateMean(c)
           /\ Len(shows) <= 2
           /\ Range(ShowCurves) =
                 {c \in {primary, secondary} :
                     IsSome(HighInterval(call.sample_data, c, InterpMaxRows, InterpMinPairs))}
           /\ \A i \in DOMAIN shows :
                 shows[i].fluid_probability = (IF ShowCurves[i] = primary THEN "High" ELSE "Med")
           /\ \A i, j \in DOMAIN shows : i /= j => ShowCurves[i] /= ShowCurves[j]

\* The bounds of band i of the window of the last call, as numbers of
\* thirds of a raw unit.
BandLo(i) == 3 * call.depth_min + (i - 1) * (call.depth_max - call.depth_min)
BandHi(i) == 3 * call.depth_min + i * (call.depth_max - call.depth_min)

\* The three candidates of the highest mean, and the average of their
\* values in row k, when it has one.
TopThree == Take(RankedHydro(ValidCurves(call.curves, call.statistics), call.statistics), 3)
RowHas(k, c) == IsSome(DictGet(call.sample_data[k], c))
RowAverage(k) ==
    LET present == SelectSeq(TopThree, LAMBDA c : RowHas(k, c))
    IN Frac(SeqSum([j \in DOMAIN present |-> Val(call.sample_data[k][present[j]])]),
            Len(present))

\* The rows whose depth falls in band i, its bounds included, and that
\* hold a value of one of the three; the mean of their averages.
BandRows(i) ==
    SelectSeq([k \in DOMAIN call.sample_data |-> k],
              LAMBDA k : /\ RowHas(k, "depth")
                         /\ BandLo(i) <= 3 * Val(call.sample_data[k]["depth"])
                         /\ 3 * Val(call.sample_data[k]["depth"]) <= BandHi(i)
                         /\ \E c \in Range(TopThree) : RowHas(k, c))
BandIntensity(i) ==
    LET rows == BandRows(i)
    IN IF rows = <<>> THEN Frac(0, 1)
       ELSE FracScale(FracSum([j \in DOMAIN rows |-> RowAverage(rows[j])]), 1, Len(rows))
OverallIntensity ==
    FracScale(FracAdd(BandIntensity(1), FracAdd(BandIntensity(2), BandIntensity(3))), 1, 3)

\* The label the claim gives a band.
ClaimedLabel(i) ==
    IF OverallIntensity.n <= 0 THEN "lower-intensity hydrocarbon zone"
    ELSE IF FracLe(FracScale(OverallIntensity, 12, 10), BandIntensity(i))
    THEN "gas-enriched zone"
    ELSE IF FracLe(FracScale(OverallIntensity, 85, 100), BandIntensity(i))
    THEN "mixed fluid zone"
    ELSE "lower-intensity hydrocarbon zone"

\* There are three zones, each bottom is the next top, and each label is
\* the claimed one.
ThreeLabelledZones ==
    /\ Len(out.value.zones) = 3
    /\ \A i \in 1..2 : out.value.zones[i].depth_bottom = out.value.zones[i + 1].depth_top
    /\ \A i \in 1..3 : out.value.zones[i].characterization = ClaimedLabel(i)

BandsOf(k) ==
    {i \in 1..3 :
        BandValues(<<call.sample_data[k]>>, TopThree,
                   ZoneBounds(call.depth_min, call.depth_max)[i]) /= <<>>}

\* C29: every sample row whose depth lies in [depth_min, depth_max] (and
\* that holds a value of one of the three candidates) contributes to the
\* intensity of exactly one band, the rows on a boundary between two bands
\* included.
C29_BandsPartition ==
    Interpreted =>
        \A k \in DOMAIN call.sample_data :
           (/\ RowHas(k, "depth")
            /\ call.depth_min <= Val(call.sample_data[k]["depth"])
            /\ Val(call.sample_data[k]["depth"]) <= call.depth_max
            /\ \E c \in Range(TopThree) : RowHas(k, c))
              => Cardinality(BandsOf(k)) = 1

(***************************************************************************)
(* Ownership of curves and samples.                                        *)
(***************************************************************************)
\* C25: after any sequence of uploads, re-uploads and delete_well calls,
\* every stored curve and every stored sample belongs to a well that
\* exists; and after delete_well(id) nothing of that id is stored or comes
\* back from a query.
C25_WellOwnsRows ==
    /\ \A c \in curvesT : \E w \in wells : w.id = c.well_id
    /\ \A r \in dataT : \E w \in wells : w.id = r.well_id
    /\ lastOp.op = "delete" => Gone(lastOp.well_id)

\* C25 witness: delete_well has removed the well of the first upload
\* after a later upload, and another well is stored with its curves and
\* samples.
C25_Witness ==
    /\ lastOp.op = "delete"
    /\ lastOp.found
    /\ lastOp.well_id = 1
    /\ wells /= {} /\ curvesT /= {} /\ dataT /= {}

(***************************************************************************)
(* An interpretation or chat request while the store changes.  The route   *)
(* sends four statements through its session, one after the other: the     *)
(* well lookup, the curve query, the row query of get_well_statistics and  *)
(* the row query of get_well_data.  Uploads and delete_well of other       *)
(* requests commit between them.                                           *)
(***************************************************************************)
\* What one statement of a request's session reads: the tables as they are
\* committed when the statement runs.  The session keeps the database's
\* default isolation (READ COMMITTED); nothing pins one snapshot for the
\* whole request.
SessionView == Store

\* What is stored of a well when a statement runs.
VersionOf(well_id) ==
    [well |-> {w \in SessionView.wells : w.id = well_id},
     curves |-> {c \in SessionView.curves : c.well_id = well_id},
     data |-> {r \in SessionView.data : r.well_id = well_id}]

AnalysisPaths == {"interpret", "chat"}
AnalysisCurveLists == {<<"HC1">>, <<"HC2">>}
AnalysisFiles == {f \in StoreFiles : f.well_name = Some("A") /\ Len(f.rows) <= 2}

\* well = db.query(Well).filter(Well.id == well_id).first(); 404 when
\* there is none.  The depth window of the request is [0, 6] (the chat
\* route fixes its window here, from the well it has just read).
LookupWell ==
    /\ call.op = "none"
    /\ \E path \in AnalysisPaths, well_id \in WellIds, curves \in AnalysisCurveLists :
          LET well == VersionOf(well_id).well
          IN /\ call' = [op |-> "analysis", path |-> path, well_id |-> well_id,
                         curves |-> curves, depth_min |-> Some(0), depth_max |-> Some(6),
                         pc |-> IF well = {} THEN "done" ELSE "curves",
                         scope |-> <<>>, statistics |-> <<>>,
                         observed |-> <<VersionOf(well_id)>>]
             /\ out' = IF well = {} THEN Raised("404: Well not found.") ELSE NoCall
    /\ UNCHANGED <<blobs, tableVars, nextWellId, sess, ingests, readVars, keys, client>>

\* db.query(Curve).filter(Curve.well_id == well_id).all() and what the
\* route makes of it: interpret refuses curves the well does not have
\* (400); chat keeps the requested curves the well has, or its default
\* subset, and asks nothing more when that is empty.
CheckCurves ==
    /\ call.op = "analysis"
    /\ call.pc = "curves"
    /\ LET available == {c.mnemonic : c \in VersionOf(call.well_id).curves}
           invalid == Range(call.curves) \ available
           scope == IF call.path = "interpret" THEN call.curves
                    ELSE SelectContextCurves(call.curves, available).analyzed
           observed == Append(call.observed, VersionOf(call.well_id))
       IN IF call.path = "interpret" /\ invalid /= {}
          THEN /\ call' = [call EXCEPT !.pc = "done", !.observed = observed]
               /\ out' = Raised("400: Invalid curves")
          ELSE IF scope = <<>>
          THEN /\ call' = [call EXCEPT !.pc = "done", !.observed = observed]
               /\ out' = Returned([statistics |-> <<>>, sample_data |-> <<>>])
          ELSE /\ call' = [call EXCEPT !.pc = "statistics", !.scope = scope,
                                       !.observed = observed]
               /\ out' = NoCall
    /\ UNCHANGED <<blobs, tableVars, nextWellId, sess, ingests, readVars, keys, client>>

\* stats = get_well_statistics(db, well_id, curves, depth_min, depth_max),
\* which runs its own get_well_data.
QueryStatistics ==
    /\ call.op = "analysis"
    /\ call.pc = "statistics"
    /\ \E data \in GetWellData(call.well_id, call.scope, call.depth_min, call.depth_max) :
          call' = [call EXCEPT !.pc = "rows",
                               !.statistics = GetWellStatistics(data, call.scope),
                               !.observed = Append(call.observed, VersionOf(call.well_id))]
    /\ UNCHANGED <<blobs, tableVars, nextWellId, sess, ingests, readVars, keys, client, out>>

\* data = get_well_data(db, well_id, curves, depth_min, depth_max); the
\* statistics and the rows are handed to the interpreter or the context
\* assembler.
QueryRows ==
    /\ call.op = "analysis"
    /\ call.pc = "rows"
    /\ \E data \in GetWellData(call.well_id, call.scope, call.depth_min, call.depth_max) :
          out' = Returned([statistics |-> call.statistics, sample_data |-> data])
    /\ call' = [call EXCEPT !.pc = "done",
                            !.observed = Append(call.observed, VersionOf(call.well_id))]
    /\ UNCHANGED <<blobs, tableVars, nextWellId, sess, ingests, readVars, keys, client>>

\* The response is sent.
FinishAnalysis ==
    /\ call.op = "analysis"
    /\ call.pc = "done"
    /\ call' = NoCall
    /\ out' = NoCall
    /\ UNCHANGED <<blobs, tableVars, nextWellId, sess, ingests, readVars, keys, client>>

NextAnalysis ==
    \/ Upload(1, AnalysisFiles, {FALSE})
    \/ DeleteWell(WellIds)
    \/ ClearRead
    \/ LookupWell
    \/ CheckCurves
    \/ QueryStatistics
    \/ QueryRows
    \/ FinishAnalysis

SpecAnalysis == Init /\ [][NextAnalysis]_vars

\* C26: the statements of one interpretation or chat request all observe
\* the same version of the well, whatever is committed meanwhile: the
\* statistics handed over are the statistics of exactly the rows handed
\* over, and the curves checked are the curves of the well of those rows.
C26_OneVersion ==
    (call.op = "analysis" /\ call.pc = "done") =>
        /\ \A i, j \in DOMAIN call.observed : call.observed[i] = call.observed[j]
        /\ (out.status = "returned" /\ call.scope /= <<>>) =>
              out.value.statistics
                  = GetWellStatistics(out.value.sample_data, call.scope)

(***************************************************************************)
(* get_ai_client under the routes' threads.  interpret and chat are plain  *)
(* functions, which the server runs in worker threads; each calls          *)
(* get_ai_client, whose globals _client, _provider and _model_name are     *)
(* shared and unlocked.  A thread can be suspended inside OpenAI(...),     *)
(* between the test of _client and the stores.                             *)
(***************************************************************************)
Threads == {1, 2}

IdleThread == [pc |-> "idle", settings |-> NoValue, late |-> FALSE, result |-> NoCall]

\* No thread is in get_ai_client and no client has been made.
NoClientCalls ==
    [op |-> "get_ai_client", threads |-> [t \in Threads |-> IdleThread]]
NoneMade == [made |-> <<>>]

InitClient ==
    /\ wells = {}
    /\ curvesT = {}
    /\ dataT = {}
    /\ nextWellId = 1
    /\ sess = [s \in Sessions |-> IdleSession]
    /\ ingests = 0
    /\ blobs = {}
    /\ lastOp = NoRead
    /\ qres = <<>>
    /\ qstats = <<>>
    /\ keys \in KeyConfigs
    /\ client = NoClient
    /\ call = NoClientCalls
    /\ out = NoneMade

\* The keys are read and _client is tested: a thread that finds a client,
\* or no usable key, goes on to return; another sets out to make a client
\* from the keys it has read.  late: a client had been made when the call
\* began.
EnterGetAiClient(t) ==
    /\ call.threads[t].pc = "idle"
    /\ LET makes == GetAiClient(client, keys) /= client
       IN call' = [call EXCEPT !.threads[t] =
                      [pc |-> IF makes THEN "construct" ELSE "return",
                       settings |-> Some(keys),
                       late |-> IsSome(client.client),
                       result |-> NoCall]]
    /\ UNCHANGED <<blobs, tableVars, nextWellId, sess, ingests, readVars, keys, client, out>>

\* _client = OpenAI(...); _provider = ...; _model_name = ...  The new
\* object is told from every other by its serial number.
ConstructClient(t) ==
    /\ call.threads[t].pc = "construct"
    /\ LET state == GetAiClient(NoClient, Val(call.threads[t].settings))
           object == [api_key |-> Val(state.client).api_key,
                      base_url |-> Val(state.client).base_url,
                      serial |-> Len(out.made) + 1]
       IN /\ client' = [state EXCEPT !.client = Some(object)]
          /\ out' = [made |-> Append(out.made,
                                     [state |-> client',
                                      settings |-> Val(call.threads[t].settings)])]
    /\ call' = [call EXCEPT !.threads[t].pc = "return"]
    /\ UNCHANGED <<blobs, tableVars, nextWellId, sess, ingests, readVars, keys>>

\* return _client, _provider, _model_name
ReturnGetAiClient(t) ==
    /\ call.threads[t].pc = "return"
    /\ call' = [call EXCEPT !.threads[t].pc = "returned", !.threads[t].result = client]
    /\ UNCHANGED <<blobs, tableVars, nextWellId, sess, ingests, readVars, keys, client, out>>

\* The caller goes on with what it was given.
LeaveGetAiClient(t) ==
    /\ call.threads[t].pc = "returned"
    /\ call' = [call EXCEPT !.threads[t] = IdleThread]
    /\ UNCHANGED <<blobs, tableVars, nextWellId, sess, ingests, readVars, keys, client, out>>

\* settings.GROQ_API_KEY or settings.OPENAI_API_KEY is set or removed.
SetKeys ==
    /\ \E new \in KeyConfigs \ {keys} : keys' = new
    /\ UNCHANGED <<blobs, tableVars, nextWellId, sess, ingests, readVars, client, call, out>>

NextClient ==
    \/ \E t \in Threads : EnterGetAiClient(t)
    \/ \E t \in Threads : ConstructClient(t)
    \/ \E t \in Threads : ReturnGetAiClient(t)
    \/ \E t \in Threads : LeaveGetAiClient(t)
    \/ SetKeys

SpecClient == InitClient /\ [][NextClient]_vars

\* The client is unset exactly when the provider is "NONE".
UnsetIffNone == IsSome(client.client) <=> client.provider /= "NONE"

\* Every client made was made from a usable key, the Groq key first.
MadeFromUsableKey ==
    \A i \in DOMAIN out.made :
       LET m == out.made[i]
       IN IF ~IsPlaceholder(m.settings.groq)
          THEN m.state.provider = "GROQ" /\ Val(m.state.client).api_key = m.settings.groq
          ELSE /\ ~IsPlaceholder(m.settings.openai)
               /\ m.state.provider = "OPENAI"
               /\ Val(m.state.client).api_key = m.settings.openai

\* A call that began when a client had been made returns the first client
\* made, with its provider and model.
LateCallsReturnFirst ==
    \A t \in Threads :
       (call.threads[t].pc = "returned" /\ call.threads[t].late)
          => call.threads[t].result = out.made[1].state

\* C27: the client is unset exactly when the provider is "NONE"; a client
\* is made only from a usable key, the Groq key before the OpenAI key; and
\* once a client has been made, every later call returns that client, its
\* provider and its model, whatever the keys become.
C27_ClientState ==
    /\ UnsetIffNone
    /\ MadeFromUsableKey
    /\ LateCallsReturnFirst

(***************************************************************************)
(* The window of the chat path.                                            *)
(***************************************************************************)
\* A depth brought into the extent of a well.
ClampedInto(depth, well) ==
    IF depth < well.start_depth THEN well.start_depth
    ELSE IF depth > well.stop_depth THEN well.stop_depth
    ELSE depth

\* The request clamped to the well's extent, a missing bound being the
\* well's.
ClampedRequest ==
    LET well == Val(call.well)
    IN [depth_min |-> IF IsSome(call.depth_min)
                      THEN ClampedInto(Val(call.depth_min), well) ELSE well.start_depth,
        depth_max |-> IF IsSome(call.depth_max)
                      THEN ClampedInto(Val(call.depth_max), well) ELSE well.stop_depth]

\* The last call is a chat request for a well that exists.
ChatWindowed == call.op = "route" /\ call.path = "chat" /\ IsSome(call.well)

\* C28: for every well and every combination of given and omitted request
\* bounds, the window (lo, hi) of a chat request has
\* start_depth <= lo < hi <= stop_depth; it is the request clamped to the
\* well's extent when that is not empty, and the well's full extent
\* otherwise.
C28_ChatWindow ==
    ChatWindowed =>
        LET well == Val(call.well)
            lo == out.value.depth_min
            hi == out.value.depth_max
        IN /\ well.start_depth <= lo
           /\ lo < hi
           /\ hi <= well.stop_depth
           /\ IF ClampedRequest.depth_min < ClampedRequest.depth_max
              THEN lo = ClampedRequest.depth_min /\ hi = ClampedRequest.depth_max
              ELSE lo = well.start_depth /\ hi = well.stop_depth
====
